---------------------------- MODULE Spec2Model ----------------------------
(***************************************************************************)
(* A model of labelbase: the name-path codec, the ontology indexer and the *)
(* annotation encoder / decoder (annotate.py, converters/ontology.py).     *)
(*                                                                         *)
(* Python strings are sequences of one-character strings, so that split,   *)
(* startswith and slicing are computed and never assumed.  A raised        *)
(* exception is the record [exc |-> <name>, arg |-> <its argument>].       *)
(***************************************************************************)
EXTENDS Integers, Sequences, FiniteSets, TLC

VARIABLES
    pc,              \* position of the caller: which call has returned
    hashseed,        \* the process's string hash seed: fixes the order of list(set(..))
    divider,         \* the `divider` argument
    \* the path codec
    first,           \* get_child_paths: the `first` argument
    name_paths,      \* the `name_paths` argument
    firsts,          \* what pull_first_name_from_paths returned
    child_paths,     \* what get_child_paths returned
    \* the ontology indexer
    ontology,        \* the `ontology` argument
    invert,          \* the `invert` argument
    detailed,        \* the `detailed` argument
    working_dictionary,  \* how get_ontology_schema_to_name_path ended
    rebuilt,         \* how a second call on the same ontology ended
    \* the annotation encoder and decoder
    ontology_index,  \* the `ontology_index` argument
    top_level_name,  \* the `top_level_name` argument
    annotation_inputs,   \* create_ndjsons: the `annotation_inputs` argument
    annotation_input,    \* ndjson_builder: the `annotation_input` argument
    confidence,      \* the `confidence` argument
    mask_method,     \* the `mask_method` argument
    ndjson,          \* how ndjson_builder ended
    ndjsons,         \* how create_ndjsons ended
    classification_path, \* classification_builder: its arguments
    answer_paths,
    tool_name,
    classification_ndjson,   \* how classification_builder ended
    leaf_paths,      \* what get_leaf_paths returned
    \* uploader.batch_create_data_rows
    upload_dict,     \* the `upload_dict` argument, in insertion order
    skip_duplicates, \* the `skip_duplicates` argument
    batch_size,      \* the `batch_size` argument
    dataset_id_to_upload_list,\* the uploads grouped by dataset
    dataset_cursor,  \* position of the loop over the datasets
    batch_cursor,    \* `i` of the loop over the batches of a dataset
    upload_errors,   \* `e`, the error message to return
    create_calls,    \* the calls of dataset.create_data_rows issued so far
    upload_result,   \* what batch_create_data_rows returned
    \* uploader.check_global_keys
    global_keys_list,\* the global keys to check, as strings
    check_batch_size,\* the `batch_size` argument
    check_cursor,    \* `i` of the loop over the batches of global keys
    query_job_id,    \* the id of the query job submitted last
    res,             \* the result of the query job polled last
    existing_drid_to_gk,\* data row id -> global key, found so far
    check_result,    \* what check_global_keys returned
    \* masks.mask_to_bytes and masks.get_mask_from_url
    bytes_input,     \* the `input` argument: a url or an array
    bytes_method,    \* the `method` argument
    bytes_color,     \* the `color` argument
    bytes_output,    \* the `output` argument
    attempt_n,       \* `n` of get_mask_from_url, the failed attempts so far
    np_mask,         \* what get_mask_from_url returned, or the array given
    bytes_result,    \* what mask_to_bytes returned or raised
    \* connector.validate_columns
    column_names,    \* the column names of the table, in order
    creating_data_rows,\* the `creating_data_rows` argument
    x_result,        \* `x`, the dictionary built, or the exception raised
    lb_metadata_names,\* the metadata field names the service knows
    created_schemas, \* the metadata fields created at the service
    \* two calls of get_ontology_schema_to_name_path, with the objects they hold
    heap,            \* the objects in memory, by address: ontologies and dictionaries
    heap_at_call,    \* the objects as they were when the calls were made
    build_ontology,  \* the address of the `ontology` argument of each call
    build_pc,        \* where each call stands
    build_stack,     \* the pending frames of map_layer of each call, innermost first
    build_dict,      \* the address of `feature_dict` of each call
    build_encoded,   \* `encoded_value` of each call
    build_result,    \* what each call returned: the address of working_dictionary
    \* converters.coco.export_labels, the conversion of the annotations
    exported_datarows,\* the exported data rows, each with its object annotations
    item_cursor,     \* position of the loop over exported_datarows
    futures,         \* the tasks submitted to the executor, in order
    finished,        \* the tasks whose worker has finished
    yielded,         \* the tasks the running as_completed has handed out
    global_max_keypoints,\* the largest number of keypoints collected
    annotations,     \* the results collected, in order
    \* dataset.get_or_create_dataset, called again and again
    lb_datasets,     \* the datasets at the service, in the order of their creation
    dataset_name,    \* the `name` argument of the call
    lookup,          \* what line 14 yielded: a dataset, or the exception raised
    dataset_result,  \* `dataset`, what the call returned
    calls_made,      \* the calls of get_or_create_dataset so far
    \* uploader.batch_create_data_rows, the vetting of the global keys
    vet_dict,        \* `upload_dict`, in insertion order
    given_dict,      \* `upload_dict` as it was given
    vet_skip,        \* the `skip_duplicates` argument
    vet_batch_size,  \* the `batch_size` argument
    keys_in_use,     \* the platform: how many keys in a row it holds for each original key
    global_keys,     \* `global_keys`, the keys of upload_dict as listed last
    vet_range,       \* len(global_keys) when the loop of line 110 began
    vet_i,           \* `i` of the loop of line 110
    gks,             \* the batch of global keys that is vetted
    existing_gks,    \* the values of existing_data_row_to_global_key, in order
    loop_counter,    \* `loop_counter`, the suffix counter
    reported,        \* every global key the platform has reported in use
    submitted,       \* the global keys of the data rows handed to create_data_rows
    \* models.create_model_run_with_name
    requested,       \* the version the call asks for, and the name that spells it
    model_run_name,  \* `model_run_name`
    current_runs,    \* `current_runs`, the names of the runs of the model
    model_run,       \* what the call returned: the model run created, or the exception
    \* metadata.process_metadata_value
    metadata_value,  \* `metadata_value`
    metadata_type,   \* `metadata_type`
    name_key_to_schema,\* `metadata_name_key_to_schema`
    return_value,    \* what the call returned or raised
    \* annotate.flatten_label and get_leaf_paths on an exported label
    label_dict,      \* `label_dict`, a label of the export
    label_index,     \* `ontology_index` of the call
    export_leaf_paths,\* what get_leaf_paths returned for the classifications of the label
    flat_label,      \* what flatten_label returned or raised
    \* connector.determine_actions
    action_args,     \* the arguments of the call, by name
    actions          \* what the call returned: create_action, batch_action, annotate_action, predictions_action

commonVars == <<hashseed, divider>>

codecVars == <<first, name_paths, firsts, child_paths>>

indexVars == <<ontology, invert, detailed, working_dictionary, rebuilt>>

encoderVars == <<ontology_index, top_level_name, annotation_inputs, annotation_input,
                 confidence, mask_method, ndjson, ndjsons, classification_path,
                 answer_paths, tool_name, classification_ndjson, leaf_paths>>

uploaderVars == <<upload_dict, skip_duplicates, batch_size, dataset_id_to_upload_list,
                  dataset_cursor, batch_cursor, upload_errors, create_calls,
                  upload_result>>

pollerVars == <<global_keys_list, check_batch_size, check_cursor, query_job_id, res,
                existing_drid_to_gk, check_result>>

maskVars == <<bytes_input, bytes_method, bytes_color, bytes_output, attempt_n, np_mask,
              bytes_result>>

connectorVars == <<column_names, creating_data_rows, x_result, lb_metadata_names,
                   created_schemas>>

buildsVars == <<heap, heap_at_call, build_ontology, build_pc, build_stack, build_dict,
                build_encoded, build_result>>

cocoVars == <<exported_datarows, item_cursor, futures, finished, yielded,
              global_max_keypoints, annotations>>

datasetVars == <<lb_datasets, dataset_name, lookup, dataset_result, calls_made>>

vettingVars == <<vet_dict, given_dict, vet_skip, vet_batch_size, keys_in_use,
                 global_keys, vet_range, vet_i, gks, existing_gks, loop_counter,
                 reported, submitted>>

modelsVars == <<requested, model_run_name, current_runs, model_run>>

metadataVars == <<metadata_value, metadata_type, name_key_to_schema, return_value>>

flattenVars == <<label_dict, label_index, export_leaf_paths, flat_label>>

actionsVars == <<action_args, actions>>

\* the variables of the components that talk to the remote service
serviceVars == <<uploaderVars, pollerVars, maskVars, connectorVars, buildsVars,
                 cocoVars, datasetVars, vettingVars, modelsVars, metadataVars,
                 flattenVars, actionsVars>>

\* the service variables outside the uploader
notUploaderVars == <<pollerVars, maskVars, connectorVars, buildsVars, cocoVars,
                     datasetVars, vettingVars, modelsVars, metadataVars, flattenVars,
                     actionsVars>>

\* the service variables outside the poller
notPollerVars == <<uploaderVars, maskVars, connectorVars, buildsVars, cocoVars,
                   datasetVars, vettingVars, modelsVars, metadataVars, flattenVars,
                   actionsVars>>

\* the service variables outside the mask
notMaskVars == <<uploaderVars, pollerVars, connectorVars, buildsVars, cocoVars,
                 datasetVars, vettingVars, modelsVars, metadataVars, flattenVars,
                 actionsVars>>

\* the service variables outside the connector
notConnectorVars == <<uploaderVars, pollerVars, maskVars, buildsVars, cocoVars,
                      datasetVars, vettingVars, modelsVars, metadataVars, flattenVars,
                      actionsVars>>

\* the service variables outside the builds
notBuildsVars == <<uploaderVars, pollerVars, maskVars, connectorVars, cocoVars,
                   datasetVars, vettingVars, modelsVars, metadataVars, flattenVars,
                   actionsVars>>

\* the service variables outside the coco
notCocoVars == <<uploaderVars, pollerVars, maskVars, connectorVars, buildsVars,
                 datasetVars, vettingVars, modelsVars, metadataVars, flattenVars,
                 actionsVars>>

\* the service variables outside the dataset
notDatasetVars == <<uploaderVars, pollerVars, maskVars, connectorVars, buildsVars,
                    cocoVars, vettingVars, modelsVars, metadataVars, flattenVars,
                    actionsVars>>

\* the service variables outside the vetting
notVettingVars == <<uploaderVars, pollerVars, maskVars, connectorVars, buildsVars,
                    cocoVars, datasetVars, modelsVars, metadataVars, flattenVars,
                    actionsVars>>

\* the service variables outside the models
notModelsVars == <<uploaderVars, pollerVars, maskVars, connectorVars, buildsVars,
                   cocoVars, datasetVars, vettingVars, metadataVars, flattenVars,
                   actionsVars>>

\* the service variables outside the metadata
notMetadataVars == <<uploaderVars, pollerVars, maskVars, connectorVars, buildsVars,
                     cocoVars, datasetVars, vettingVars, modelsVars, flattenVars,
                     actionsVars>>

\* the service variables outside the flatten
notFlattenVars == <<uploaderVars, pollerVars, maskVars, connectorVars, buildsVars,
                    cocoVars, datasetVars, vettingVars, modelsVars, metadataVars,
                    actionsVars>>

\* the service variables outside the actions
notActionsVars == <<uploaderVars, pollerVars, maskVars, connectorVars, buildsVars,
                    cocoVars, datasetVars, vettingVars, modelsVars, metadataVars,
                    flattenVars>>

\* the variables of the pure transformations
pureVars == <<commonVars, codecVars, indexVars, encoderVars>>

vars == <<pc, commonVars, codecVars, indexVars, encoderVars, serviceVars>>

-----------------------------------------------------------------------------
(* Bounds of the model.                                                    *)

\* longest generated name path, in characters
MaxLen == 5
\* longest generated `first` argument, in characters
MaxFirstLen == 2

-----------------------------------------------------------------------------
(* Python's str and list primitives.                                       *)

\* The default divider, "///".
DIV == <<"/", "/", "/">>

\* A value no call has produced yet.
None == [none |-> TRUE]

\* A call of a modelled function ends in one of two ways: it returns a value,
\* [ret |-> v], or it raises an exception, [exc |-> name, arg |-> a].
Return(v) == [ret |-> v]

Raise(e, a) == [exc |-> e, arg |-> a]

Raised(r) == "exc" \in DOMAIN r

Returned(r) == "ret" \in DOMAIN r

\* Characters in the order the model's two iteration orders are built from.
CharOrder == <<"/", " ", "_", "a", "b", "c", "d", "e", "f", "g", "h", "i", "j",
               "k", "l", "m", "n", "o", "p", "q", "r", "s", "t", "u", "v", "w",
               "x", "y", "z">>

CharRank(c) == CHOOSE i \in 1..Len(CharOrder) : CharOrder[i] = c

\* str.startswith
StartsWith(s, p) == Len(p) <= Len(s) /\ SubSeq(s, 1, Len(p)) = p

\* s[:-n] for n > 0
DropLast(s, n) == IF Len(s) <= n THEN <<>> ELSE SubSeq(s, 1, Len(s) - n)

\* str.find: the least index at which d occurs in s, 0 when it does not
Find(s, d) ==
    LET hits == {i \in 1..(Len(s) - Len(d) + 1) : SubSeq(s, i, i + Len(d) - 1) = d}
    IN  IF hits = {} THEN 0 ELSE CHOOSE i \in hits : \A j \in hits : i <= j

\* str.split(d) for a non-empty d: leftmost, non-overlapping
RECURSIVE Split(_, _)
Split(s, d) ==
    LET i == Find(s, d)
    IN  IF i = 0 THEN <<s>>
        ELSE <<SubSeq(s, 1, i - 1)>> \o Split(SubSeq(s, i + Len(d), Len(s)), d)

\* `d in s`
Contains(s, d) == Find(s, d) # 0

\* the elements of a list, as a set
Range(xs) == {xs[i] : i \in 1..Len(xs)}

\* lexicographic order on strings, by CharRank
RECURSIVE StrLess(_, _)
StrLess(a, b) ==
    IF Len(b) = 0 THEN FALSE
    ELSE IF Len(a) = 0 THEN TRUE
    ELSE IF a[1] = b[1] THEN StrLess(Tail(a), Tail(b))
    ELSE CharRank(a[1]) < CharRank(b[1])

\* list(set(..)): the set's elements in the iteration order of this process.
\* The order depends on the strings' hashes; the model has two orders, one the
\* reverse of the other, chosen by `seed`.
RECURSIVE SetToList(_, _)
SetToList(S, seed) ==
    IF S = {} THEN <<>>
    ELSE LET m == CHOOSE x \in S : \A y \in S \ {x} :
                      IF seed = "asc" THEN StrLess(x, y) ELSE StrLess(y, x)
         IN  <<m>> \o SetToList(S \ {m}, seed)

HashSeeds == {"asc", "desc"}

-----------------------------------------------------------------------------
(* annotate.py: the path codec.                                            *)

pull_first_name_from_paths(paths, div, seed) ==
    LET fs == [i \in 1..Len(paths) |-> Split(paths[i], div)[1]]
    IN  SetToList(Range(fs), seed)

\* the mutation of ChildPath that keeps the trailing divider
ChildPath_KeepDivider(path, div) ==
    LET names == Tail(Split(path, div))
        RECURSIVE Cat(_)
        Cat(ns) == IF ns = <<>> THEN <<>> ELSE ns[1] \o div \o Cat(Tail(ns))
    IN  Cat(names)

\* the loop body of get_child_paths for one matching path
ChildPath(path, div) ==
    LET names == Tail(Split(path, div))
        RECURSIVE Cat(_)
        Cat(ns) == IF ns = <<>> THEN <<>> ELSE ns[1] \o div \o Cat(Tail(ns))
    IN  DropLast(Cat(names), Len(div))

RECURSIVE get_child_paths(_, _, _)
get_child_paths(fst, paths, div) ==
    IF paths = <<>> THEN <<>>
    ELSE (IF StartsWith(paths[1], fst) THEN <<ChildPath(paths[1], div)>> ELSE <<>>)
         \o get_child_paths(fst, Tail(paths), div)

-----------------------------------------------------------------------------
(* Inputs of the path codec.                                               *)

Color  == <<"c", "o", "l", "o", "r">>
Colors == <<"c", "o", "l", "o", "r", "s">>
Red    == <<"r", "e", "d">>
Blue   == <<"b", "l", "u", "e">>
X      == <<"x">>

\* f"{a}{divider}{b}"
Cat2(a, b, div) == a \o div \o b

\* every string of at most n characters over a set of characters
StringsUpTo(chars, n) == UNION {[1..k -> chars] : k \in 0..n}

CodecPaths == StringsUpTo({"a", "b", "/"}, MaxLen)

CodecFirsts == StringsUpTo({"a", "b"}, MaxFirstLen) \cup {Color, Colors, Red}

CodecPathLists ==
    {<<>>} \cup {<<p>> : p \in CodecPaths}
    \cup { <<Cat2(Colors, X, DIV)>>,
           <<Cat2(Color, Red, DIV), Cat2(Colors, X, DIV)>>,
           <<Cat2(Color, Red, DIV), Cat2(Color, Blue, DIV)>>,
           <<Color>>,
           <<Cat2(Red, Cat2(Color, Blue, DIV), DIV), Red, Blue>> }

\* the variables of the components a specification does not run
CodecIdle ==
    first = None /\ name_paths = None /\ firsts = None /\ child_paths = None

IndexIdle ==
    /\ ontology = None /\ invert = None /\ detailed = None
    /\ working_dictionary = None /\ rebuilt = None

EncoderIdle ==
    /\ ontology_index = None /\ top_level_name = None
    /\ annotation_inputs = None /\ annotation_input = None
    /\ confidence = None /\ mask_method = None
    /\ ndjson = None /\ ndjsons = None
    /\ classification_path = None /\ answer_paths = None /\ tool_name = None
    /\ classification_ndjson = None /\ leaf_paths = None

UploaderIdle ==
    /\ upload_dict = None
    /\ skip_duplicates = None
    /\ batch_size = None
    /\ dataset_id_to_upload_list = None
    /\ dataset_cursor = None
    /\ batch_cursor = None
    /\ upload_errors = None
    /\ create_calls = None
    /\ upload_result = None

PollerIdle ==
    /\ global_keys_list = None
    /\ check_batch_size = None
    /\ check_cursor = None
    /\ query_job_id = None
    /\ res = None
    /\ existing_drid_to_gk = None
    /\ check_result = None

MaskIdle ==
    /\ bytes_input = None
    /\ bytes_method = None
    /\ bytes_color = None
    /\ bytes_output = None
    /\ attempt_n = None
    /\ np_mask = None
    /\ bytes_result = None

ConnectorIdle ==
    /\ column_names = None
    /\ creating_data_rows = None
    /\ x_result = None
    /\ lb_metadata_names = None
    /\ created_schemas = None

BuildsIdle ==
    /\ heap = None
    /\ heap_at_call = None
    /\ build_ontology = None
    /\ build_pc = None
    /\ build_stack = None
    /\ build_dict = None
    /\ build_encoded = None
    /\ build_result = None

CocoIdle ==
    /\ exported_datarows = None
    /\ item_cursor = None
    /\ futures = None
    /\ finished = None
    /\ yielded = None
    /\ global_max_keypoints = None
    /\ annotations = None

DatasetIdle ==
    /\ lb_datasets = None
    /\ dataset_name = None
    /\ lookup = None
    /\ dataset_result = None
    /\ calls_made = None

VettingIdle ==
    /\ vet_dict = None
    /\ given_dict = None
    /\ vet_skip = None
    /\ vet_batch_size = None
    /\ keys_in_use = None
    /\ global_keys = None
    /\ vet_range = None
    /\ vet_i = None
    /\ gks = None
    /\ existing_gks = None
    /\ loop_counter = None
    /\ reported = None
    /\ submitted = None

ModelsIdle ==
    /\ requested = None
    /\ model_run_name = None
    /\ current_runs = None
    /\ model_run = None

MetadataIdle ==
    /\ metadata_value = None
    /\ metadata_type = None
    /\ name_key_to_schema = None
    /\ return_value = None

FlattenIdle ==
    /\ label_dict = None
    /\ label_index = None
    /\ export_leaf_paths = None
    /\ flat_label = None

ActionsIdle ==
    /\ action_args = None
    /\ actions = None

ServiceIdle ==
    /\ UploaderIdle
    /\ PollerIdle
    /\ MaskIdle
    /\ ConnectorIdle
    /\ BuildsIdle
    /\ CocoIdle
    /\ DatasetIdle
    /\ VettingIdle
    /\ ModelsIdle
    /\ MetadataIdle
    /\ FlattenIdle
    /\ ActionsIdle

NotUploaderIdle ==
    /\ PollerIdle
    /\ MaskIdle
    /\ ConnectorIdle
    /\ BuildsIdle
    /\ CocoIdle
    /\ DatasetIdle
    /\ VettingIdle
    /\ ModelsIdle
    /\ MetadataIdle
    /\ FlattenIdle
    /\ ActionsIdle

NotPollerIdle ==
    /\ UploaderIdle
    /\ MaskIdle
    /\ ConnectorIdle
    /\ BuildsIdle
    /\ CocoIdle
    /\ DatasetIdle
    /\ VettingIdle
    /\ ModelsIdle
    /\ MetadataIdle
    /\ FlattenIdle
    /\ ActionsIdle

NotMaskIdle ==
    /\ UploaderIdle
    /\ PollerIdle
    /\ ConnectorIdle
    /\ BuildsIdle
    /\ CocoIdle
    /\ DatasetIdle
    /\ VettingIdle
    /\ ModelsIdle
    /\ MetadataIdle
    /\ FlattenIdle
    /\ ActionsIdle

NotConnectorIdle ==
    /\ UploaderIdle
    /\ PollerIdle
    /\ MaskIdle
    /\ BuildsIdle
    /\ CocoIdle
    /\ DatasetIdle
    /\ VettingIdle
    /\ ModelsIdle
    /\ MetadataIdle
    /\ FlattenIdle
    /\ ActionsIdle

NotBuildsIdle ==
    /\ UploaderIdle
    /\ PollerIdle
    /\ MaskIdle
    /\ ConnectorIdle
    /\ CocoIdle
    /\ DatasetIdle
    /\ VettingIdle
    /\ ModelsIdle
    /\ MetadataIdle
    /\ FlattenIdle
    /\ ActionsIdle

NotCocoIdle ==
    /\ UploaderIdle
    /\ PollerIdle
    /\ MaskIdle
    /\ ConnectorIdle
    /\ BuildsIdle
    /\ DatasetIdle
    /\ VettingIdle
    /\ ModelsIdle
    /\ MetadataIdle
    /\ FlattenIdle
    /\ ActionsIdle

NotDatasetIdle ==
    /\ UploaderIdle
    /\ PollerIdle
    /\ MaskIdle
    /\ ConnectorIdle
    /\ BuildsIdle
    /\ CocoIdle
    /\ VettingIdle
    /\ ModelsIdle
    /\ MetadataIdle
    /\ FlattenIdle
    /\ ActionsIdle

NotVettingIdle ==
    /\ UploaderIdle
    /\ PollerIdle
    /\ MaskIdle
    /\ ConnectorIdle
    /\ BuildsIdle
    /\ CocoIdle
    /\ DatasetIdle
    /\ ModelsIdle
    /\ MetadataIdle
    /\ FlattenIdle
    /\ ActionsIdle

NotModelsIdle ==
    /\ UploaderIdle
    /\ PollerIdle
    /\ MaskIdle
    /\ ConnectorIdle
    /\ BuildsIdle
    /\ CocoIdle
    /\ DatasetIdle
    /\ VettingIdle
    /\ MetadataIdle
    /\ FlattenIdle
    /\ ActionsIdle

NotMetadataIdle ==
    /\ UploaderIdle
    /\ PollerIdle
    /\ MaskIdle
    /\ ConnectorIdle
    /\ BuildsIdle
    /\ CocoIdle
    /\ DatasetIdle
    /\ VettingIdle
    /\ ModelsIdle
    /\ FlattenIdle
    /\ ActionsIdle

NotFlattenIdle ==
    /\ UploaderIdle
    /\ PollerIdle
    /\ MaskIdle
    /\ ConnectorIdle
    /\ BuildsIdle
    /\ CocoIdle
    /\ DatasetIdle
    /\ VettingIdle
    /\ ModelsIdle
    /\ MetadataIdle
    /\ ActionsIdle

NotActionsIdle ==
    /\ UploaderIdle
    /\ PollerIdle
    /\ MaskIdle
    /\ ConnectorIdle
    /\ BuildsIdle
    /\ CocoIdle
    /\ DatasetIdle
    /\ VettingIdle
    /\ ModelsIdle
    /\ MetadataIdle
    /\ FlattenIdle

CodecInit ==
    /\ pc = "start"
    /\ hashseed \in HashSeeds
    /\ divider = DIV
    /\ ServiceIdle
    /\ first \in CodecFirsts
    /\ name_paths \in CodecPathLists
    /\ firsts = None
    /\ child_paths = None
    /\ IndexIdle
    /\ EncoderIdle

\* a caller runs pull_first_name_from_paths on its list of paths
PullFirstNames ==
    /\ pc = "start"
    /\ firsts' = pull_first_name_from_paths(name_paths, divider, hashseed)
    /\ pc' = "pulled"
    /\ UNCHANGED <<serviceVars, commonVars, first, name_paths, child_paths, indexVars, encoderVars>>

\* a caller runs get_child_paths with a `first` of its own
GetChildPaths ==
    /\ pc \in {"start", "pulled"}
    /\ child_paths' = get_child_paths(first, name_paths, divider)
    /\ pc' = "children"
    /\ UNCHANGED <<serviceVars, commonVars, first, name_paths, firsts, indexVars, encoderVars>>

\* a caller runs get_child_paths with one of the pulled first names, as
\* ndjson_builder and classification_builder do
GetChildPathsOfPulled ==
    /\ pc = "pulled"
    /\ \E i \in 1..Len(firsts) :
          /\ first' = firsts[i]
          /\ child_paths' = get_child_paths(firsts[i], name_paths, divider)
    /\ pc' = "children"
    /\ UNCHANGED <<serviceVars, commonVars, name_paths, firsts, indexVars, encoderVars>>

CodecNext == PullFirstNames \/ GetChildPaths \/ GetChildPathsOfPulled

SpecCodec == CodecInit /\ [][CodecNext]_vars

-----------------------------------------------------------------------------
(* What the path codec is specified to do.                                 *)

\* first_segment(path)
FirstSegment(p, div) ==
    LET i == Find(p, div) IN IF i = 0 THEN p ELSE SubSeq(p, 1, i - 1)

\* the path with its first segment and the divider after it removed
StripFirst(p, div) ==
    LET i == Find(p, div)
    IN  IF i = 0 THEN <<>> ELSE SubSeq(p, i + Len(div), Len(p))

\* children_of(first, paths): the stripped paths whose first segment is `first`
RECURSIVE ChildrenOf(_, _, _)
ChildrenOf(fst, paths, div) ==
    IF paths = <<>> THEN <<>>
    ELSE (IF FirstSegment(paths[1], div) = fst
          THEN <<StripFirst(paths[1], div)>> ELSE <<>>)
         \o ChildrenOf(fst, Tail(paths), div)

\* C4: get_child_paths returns one stripped child path for each path whose
\* first segment equals `first`, and nothing for any other path.
C4_ChildrenMatchFirstSegment ==
    pc = "children" => child_paths = ChildrenOf(first, name_paths, divider)

\* C5: path codec laws.  For a one-path list and `first` the path's first
\* segment, get_child_paths returns the path without its first segment and
\* the divider after it, or [""] for a one-segment path; an empty list gives
\* an empty list from get_child_paths and from pull_first_name_from_paths.
C5_PathCodecLaws ==
    /\ (pc = "children" /\ Len(name_paths) = 1
            /\ first = FirstSegment(name_paths[1], divider))
        => child_paths =
             << IF Contains(name_paths[1], divider)
                THEN SubSeq(name_paths[1], Len(first) + Len(divider) + 1,
                            Len(name_paths[1]))
                ELSE <<>> >>
    /\ (pc = "children" /\ name_paths = <<>>) => child_paths = <<>>
    /\ (pc \in {"pulled", "children"} /\ name_paths = <<>> /\ firsts # None)
        => firsts = <<>>

\* a several-segment path was stripped of its first segment
C5_Witness ==
    /\ pc = "children"
    /\ name_paths = << <<"a", "/", "/", "/", "b">> >>
    /\ first = <<"a">>
    /\ child_paths = << <<"b">> >>

-----------------------------------------------------------------------------
(* converters/ontology.py: the ontology indexer.                           *)
(*                                                                         *)
(* An ontology node is a record, as in Ontology.normalized: a tool has the *)
(* keys tool, name, classifications; a classification has instructions,    *)
(* type, options; an option has label and, when it nests classifications,  *)
(* options.  Every node has a featureSchemaId.                             *)

\* dict[key] = value
DictSet(d, key, value) ==
    [k \in DOMAIN d \cup {key} |-> IF k = key THEN value ELSE d[k]]

\* the empty dict
EmptyDict == [k \in {} |-> None]

\* lines 33-47 of map_layer: name, next layer, type and kind of a node
NodeInfo(node) ==
    IF "tool" \in DOMAIN node
    THEN [name |-> node.name, next |-> node.classifications,
          type |-> node.tool, kind |-> "tool"]
    ELSE IF "instructions" \in DOMAIN node
    THEN [name |-> node.instructions, next |-> node.options,
          type |-> node.type, kind |-> "classification"]
    ELSE LET next_layer == IF "options" \in DOMAIN node THEN node.options ELSE <<>>
         IN  [name |-> node.label, next |-> next_layer, type |-> "option",
              kind |-> IF next_layer # <<>> THEN "branch_option" ELSE "leaf_option"]

\* lines 48-56 of map_layer: the (key, value) pair written for a node
NodeEntry(node, parent_name_path, div, inv, det, encoded_value) ==
    LET info == NodeInfo(node)
        name_path == IF parent_name_path # <<>>
                     THEN parent_name_path \o div \o info.name ELSE info.name
        dict_key == IF ~inv THEN node.featureSchemaId ELSE name_path
        dict_value ==
            IF det
            THEN IF ~inv
                 THEN [name |-> info.name, type |-> info.type, kind |-> info.kind,
                       encoded_value |-> encoded_value, name_path |-> name_path]
                 ELSE [name |-> info.name, type |-> info.type, kind |-> info.kind,
                       encoded_value |-> encoded_value,
                       schema_id |-> node.featureSchemaId]
            ELSE IF ~inv THEN name_path ELSE node.featureSchemaId
    IN  [key |-> dict_key, value |-> dict_value, name_path |-> name_path,
         next |-> info.next]

\* map_layer returns the pair (feature_dict, encoded_value)
RECURSIVE map_layer(_, _, _, _, _, _, _)
map_layer(feature_dict, node_layer, parent_name_path, div, inv, det, encoded_value) ==
    IF node_layer = <<>> THEN <<feature_dict, encoded_value>>
    ELSE LET ev    == encoded_value + 1
             e     == NodeEntry(node_layer[1], parent_name_path, div, inv,
                                det, ev)
             d1    == DictSet(feature_dict, e.key, e.value)
             below == IF e.next # <<>>
                      THEN map_layer(d1, e.next, e.name_path, div, inv,
                                     det, ev)
                      ELSE <<d1, ev>>
         IN  map_layer(below[1], Tail(node_layer), parent_name_path, div,
                       inv, det, below[2])

\* `ontology` is [pytype, normalized]: pytype is the Python type of the
\* argument, normalized the dictionary it is or holds.
get_ontology_schema_to_name_path(ont, div, inv, det) ==
    IF ont.pytype \notin {"Ontology", "dict"}
    THEN Raise("TypeError", ont.pytype)
    ELSE LET ontology_normalized == ont.normalized
             tools == IF ontology_normalized.tools # <<>>
                      THEN map_layer(EmptyDict, ontology_normalized.tools, <<>>,
                                     div, inv, det, 0)
                      ELSE <<EmptyDict, 0>>
             all   == IF ontology_normalized.classifications # <<>>
                      THEN map_layer(tools[1], ontology_normalized.classifications,
                                     <<>>, div, inv, det, tools[2])
                      ELSE tools
         IN  Return(all[1])

-----------------------------------------------------------------------------
(* Ontologies the indexer is run on.                                       *)

\* most nodes in a generated ontology
MaxNodes == 4

A == <<"a">>
B == <<"b">>

C == <<"c">>

NodeNames == {A, B, C}

\* Forests of at most n nodes, without schema ids.  A node of kind "tool"
\* has classifications below it, a classification has options, an option has
\* classifications.
ChildKind(kind) == IF kind = "classification" THEN "option" ELSE "classification"

MakeNode(kind, name, children) ==
    IF kind = "tool"
    THEN [tool |-> "bbox", name |-> name, classifications |-> children]
    ELSE IF kind = "classification"
    THEN [instructions |-> name, options |-> children,
          type |-> IF children = <<>> THEN "text" ELSE "radio"]
    ELSE IF children = <<>> THEN [label |-> name]
    ELSE [label |-> name, options |-> children]

NameOf(node) ==
    IF "tool" \in DOMAIN node THEN node.name
    ELSE IF "instructions" \in DOMAIN node THEN node.instructions
    ELSE node.label

\* The nodes of one list have names of their own, as the ontology builder
\* requires (it refuses a duplicate tool name, classification name or option
\* of one parent); a tool and a classification may share a name.
RECURSIVE Forests(_, _)
Forests(kind, n) ==
    IF n = 0 THEN {<<>>}
    ELSE {<<>>} \cup
         UNION { UNION { { <<MakeNode(kind, name, children)>> \o rest :
                             name \in NodeNames \ {NameOf(rest[i]) : i \in 1..Len(rest)},
                             children \in Forests(ChildKind(kind), k - 1) }
                         : rest \in Forests(kind, n - k) }
                 : k \in 1..n }

Children(node) ==
    IF "tool" \in DOMAIN node THEN node.classifications
    ELSE IF "options" \in DOMAIN node THEN node.options ELSE <<>>

RECURSIVE CountNodes(_)
CountNodes(layer) ==
    IF layer = <<>> THEN 0
    ELSE 1 + CountNodes(Children(layer[1])) + CountNodes(Tail(layer))

\* The platform gives every node an id of its own: here the node's position,
\* <<0, i, j, ..>> below tools and <<1, i, j, ..>> below classifications.
RECURSIVE WithIds(_, _)
WithIds(layer, prefix) ==
    [i \in 1..Len(layer) |->
        LET node == layer[i]
            id   == prefix \o <<i>>
            kids == WithIds(Children(node), id)
        IN  IF "tool" \in DOMAIN node
            THEN [tool |-> node.tool, name |-> node.name,
                  classifications |-> kids, featureSchemaId |-> id]
            ELSE IF "instructions" \in DOMAIN node
            THEN [instructions |-> node.instructions, type |-> node.type,
                  options |-> kids, featureSchemaId |-> id]
            ELSE IF "options" \in DOMAIN node
            THEN [label |-> node.label, options |-> kids, featureSchemaId |-> id]
            ELSE [label |-> node.label, featureSchemaId |-> id]]

Normalized(tools, classifications) ==
    [tools |-> WithIds(tools, <<0>>),
     classifications |-> WithIds(classifications, <<1>>)]

GeneratedOntologies ==
    UNION { { Normalized(t, c) :
                t \in {f \in Forests("tool", MaxNodes) : CountNodes(f) = k},
                c \in Forests("classification", MaxNodes - k) }
            : k \in 0..MaxNodes }

\* The indexer is run on a normalized dictionary, on an Ontology object
\* holding one, and on a value of another type.
IndexOntologies ==
    {[pytype |-> "dict", normalized |-> o] : o \in GeneratedOntologies}
    \cup {[pytype |-> "Ontology",
           normalized |-> Normalized(<<MakeNode("tool", A, <<>>)>>,
                                     <<MakeNode("classification", B, <<>>)>>)],
          [pytype |-> "str",
           normalized |-> Normalized(<<>>, <<>>)]}

IndexInit ==
    /\ pc = "start"
    /\ hashseed = "asc"
    /\ divider = DIV
    /\ ServiceIdle
    /\ ontology \in IndexOntologies
    /\ invert \in BOOLEAN
    /\ detailed \in BOOLEAN
    /\ working_dictionary = None
    /\ rebuilt = None
    /\ CodecIdle
    /\ EncoderIdle

\* index = get_ontology_schema_to_name_path(ontology, divider, invert, detailed)
BuildIndex ==
    /\ pc = "start"
    /\ working_dictionary' =
           get_ontology_schema_to_name_path(ontology, divider, invert, detailed)
    /\ pc' = IF Raised(working_dictionary') THEN "raised" ELSE "built"
    /\ UNCHANGED <<serviceVars, commonVars, codecVars, ontology, invert, detailed, rebuilt,
                   encoderVars>>

\* the same call once more, on the same ontology
BuildIndexAgain ==
    /\ pc = "built"
    /\ rebuilt' =
           get_ontology_schema_to_name_path(ontology, divider, invert, detailed)
    /\ pc' = "rebuilt"
    /\ UNCHANGED <<serviceVars, commonVars, codecVars, ontology, invert, detailed,
                   working_dictionary, encoderVars>>

IndexNext == BuildIndex \/ BuildIndexAgain

SpecIndex == IndexInit /\ [][IndexNext]_vars

-----------------------------------------------------------------------------
(* What the indexer is specified to do.                                    *)

\* the nodes of a layer and below, in depth-first pre-order, each with its
\* schema id and its name path
RECURSIVE PreOrder(_, _, _)
PreOrder(layer, parent, div) ==
    IF layer = <<>> THEN <<>>
    ELSE LET path == IF parent = <<>> THEN NameOf(layer[1])
                     ELSE parent \o div \o NameOf(layer[1])
         IN  <<[id |-> layer[1].featureSchemaId, name_path |-> path]>>
             \o PreOrder(Children(layer[1]), path, div)
             \o PreOrder(Tail(layer), parent, div)

\* tools first, classifications after them
TreeNodes(o, div) ==
    PreOrder(o.normalized.tools, <<>>, div)
    \o PreOrder(o.normalized.classifications, <<>>, div)

KeyOf(n, inv) == IF inv THEN n.name_path ELSE n.id

\* C2: the index holds every node of the ontology exactly once, in both
\* directions: as many entries as nodes, and under each node's key the
\* entry of that node.
C2_EveryNodeOnce ==
    pc = "built" =>
        LET d     == working_dictionary.ret
            nodes == TreeNodes(ontology, divider)
        IN  /\ Cardinality(DOMAIN d) = Len(nodes)
            /\ \A i \in 1..Len(nodes) :
                  /\ KeyOf(nodes[i], invert) \in DOMAIN d
                  /\ LET v == d[KeyOf(nodes[i], invert)]
                     IN  IF invert
                         THEN (IF detailed THEN v.schema_id ELSE v) = nodes[i].id
                         ELSE (IF detailed THEN v.name_path ELSE v)
                                  = nodes[i].name_path

\* C3: in a detailed index the encoded_value of every node is its 1-based
\* position in the pre-order traversal (tools, then classifications), the
\* values are exactly 1..N, and a second build gives the same index.
C3_EncodedValueIsPreOrderPosition ==
    /\ (pc \in {"built", "rebuilt"} /\ detailed) =>
          LET d     == working_dictionary.ret
              nodes == TreeNodes(ontology, divider)
          IN  /\ \A i \in 1..Len(nodes) :
                    /\ KeyOf(nodes[i], invert) \in DOMAIN d
                    /\ d[KeyOf(nodes[i], invert)].encoded_value = i
              /\ {d[k].encoded_value : k \in DOMAIN d} = 1..Len(nodes)
    /\ pc = "rebuilt" => rebuilt = working_dictionary

-----------------------------------------------------------------------------
(* annotate.py: the annotation encoder.                                    *)
(*                                                                         *)
(* Python lists are 0-based and sequences 1-based: annotation_input[0] is  *)
(* input[1].  In the annotation_input of a classification every element is *)
(* tagged with its Python type, [str |-> s], [list |-> xs] or [num |-> n], *)
(* because the code treats a str and a list of str differently.            *)

PyStr(s) == [str |-> s]

PyList(xs) == [list |-> xs]

PyNum(n) == [num |-> n]

\* the key 'project_type'
ProjectTypeKey == <<"p", "r", "o", "j", "e", "c", "t", "_", "t", "y", "p", "e">>

\* str(lb.MediaType.Geospatial_Tile)
GeospatialTile == "MediaType.Geospatial_Tile"

\* the mutation of IndexLookup that defaults on a missing key, as dict.get does
IndexLookup_Default(idx, key) ==
    IF key \in DOMAIN idx THEN Return(idx[key])
    ELSE IF key = ProjectTypeKey THEN Raise("KeyError", key)
    ELSE Return([type |-> "text"])

\* ontology_index[key]
IndexLookup(idx, key) ==
    IF key \notin DOMAIN idx THEN Raise("KeyError", key) ELSE Return(idx[key])

\* 'geo_' + annotation_type
GeoType(t) ==
    CASE t = "bbox" -> "geo_bbox"
      [] t = "polygon" -> "geo_polygon"
      [] t = "line" -> "geo_line"
      [] t = "point" -> "geo_point"
      [] OTHER -> "geo_other"

ToolTypes == {"bbox", "polygon", "line", "point", "mask", "named-entity",
              "geo_bbox", "geo_polygon", "geo_line", "geo_point"}

\* the least element of a non-empty set of numbers
Min(S) == CHOOSE x \in S : \A y \in S : x <= y

\* A local variable of the code is bound as x in Only({e(x) : x \in {value}}):
\* the value is computed once, e(x) is what the code computes from it.
Only(S) == CHOOSE out \in S : TRUE

\* the first call that raised, or the list of what the calls returned
Collect(results) ==
    Only({ LET bad == {i \in 1..Len(rs) : Raised(rs[i])}
           IN  IF bad # {} THEN rs[Min(bad)]
               ELSE Return([i \in 1..Len(rs) |-> rs[i].ret])
           : rs \in {results} })

\* an answer dictionary whose key `classifications` exists from the start
AnswerDict_Always(answer_name, nested) ==
    [name |-> answer_name, classifications |-> nested]

\* an answer dictionary: the key `classifications` exists once a nested
\* classification has been appended
AnswerDict(answer_name, nested) ==
    IF nested = <<>> THEN [name |-> answer_name]
    ELSE [name |-> answer_name, classifications |-> nested]

\* pull_first_name_from_paths(..)[0]
RadioAnswerName(names) == names[1]

RECURSIVE classification_builder(_, _, _, _, _, _)
RECURSIVE NestedClassifications(_, _, _, _, _, _, _)

\* lines 217-235 and 246-264: the classifications nested below one answer
NestedClassifications(cpath, answer_name, apaths, idx, tname, div, seed) ==
    Only({ Only({ Collect([i \in 1..Len(n_c_names) |->
                      classification_builder(
                          cpath \o div \o answer_name \o div \o n_c_names[i],
                          get_child_paths(n_c_names[i], n_c_paths, div),
                          idx, tname, div, seed)])
                  : n_c_names \in {SelectSeq(
                        pull_first_name_from_paths(n_c_paths, div, seed),
                        LAMBDA n : n # <<>>)} })
           : n_c_paths \in {get_child_paths(answer_name, apaths, div)} })

\* lines 211-235: a radio has one answer
RadioNdjson(cpath, c_name, names, apaths, idx, tname, div, seed) ==
    IF names = <<>> THEN Raise("IndexError", "list index out of range")
    ELSE Only({ IF Raised(nested) THEN nested
                ELSE Return([name |-> c_name,
                             answer |-> AnswerDict(RadioAnswerName(names), nested.ret)])
                : nested \in {NestedClassifications(cpath, RadioAnswerName(names),
                                                    apaths, idx, tname, div, seed)} })

\* lines 243-265: one answer of a checklist
ChecklistAnswer(cpath, answer_name, apaths, idx, tname, div, seed) ==
    Only({ IF Raised(nested) THEN nested
           ELSE Return(AnswerDict(answer_name, nested.ret))
           : nested \in {NestedClassifications(cpath, answer_name, apaths,
                                               idx, tname, div, seed)} })

\* lines 237-265: a checklist has an answer for each answer name
ChecklistNdjson(cpath, c_name, names, apaths, idx, tname, div, seed) ==
    Only({ IF Raised(entries) THEN entries
           ELSE Return([name |-> c_name, answers |-> entries.ret])
           : entries \in {Collect([i \in 1..Len(names) |->
                 ChecklistAnswer(cpath, names[i], apaths, idx, tname, div, seed)])} })

classification_builder(cpath, apaths, idx, tname, div, seed) ==
    LET index_input == IF tname # <<>> THEN tname \o div \o cpath ELSE cpath
        c_name == IF Contains(cpath, div)
                  THEN Split(cpath, div)[Len(Split(cpath, div))] ELSE cpath
    IN  Only({ IF Raised(entry) THEN entry
               ELSE IF entry.ret.type = "radio"
               THEN RadioNdjson(cpath, c_name,
                                pull_first_name_from_paths(apaths, div, seed),
                                apaths, idx, tname, div, seed)
               ELSE IF entry.ret.type = "checklist"
               THEN ChecklistNdjson(cpath, c_name,
                                    pull_first_name_from_paths(apaths, div, seed),
                                    apaths, idx, tname, div, seed)
               ELSE IF apaths = <<>>
               THEN Raise("IndexError", "list index out of range")
               ELSE Return([name |-> c_name, answer |-> apaths[1]])
               : entry \in {IndexLookup(idx, index_input)} })

\* classification_builder when answer_paths is [v] and v is not a str:
\* the lookup comes first, then name_path.split raises for a radio or a
\* checklist, and a text takes answer_paths[0] as it is
classification_builder_nonstr(cpath, v, idx, tname, div) ==
    LET index_input == IF tname # <<>> THEN tname \o div \o cpath ELSE cpath
        entry       == IndexLookup(idx, index_input)
    IN  IF Raised(entry) THEN entry
        ELSE IF entry.ret.type \in {"radio", "checklist"}
        THEN Raise("AttributeError", <<"s", "p", "l", "i", "t">>)
        ELSE Return([name |-> IF Contains(cpath, div)
                              THEN Split(cpath, div)[Len(Split(cpath, div))]
                              ELSE cpath,
                     answer |-> v])

\* mask_to_bytes as annotate.py line 127 calls it, with input, method, color
\* and output only: masks.py line 18 also requires client and datarow_id,
\* so Python raises TypeError before the body runs
mask_to_bytes(input, method, color, output) ==
    Raise("TypeError", "mask_to_bytes() missing required arguments client and datarow_id")

\* lines 102-136: the geometry written to the ndjson of a tool
Geometry(annotation_type, geom, mm) ==
    CASE annotation_type = "geo_bbox" ->
            Return("bbox" :> [top    |-> geom[1][2][2],
                              left   |-> geom[1][2][1],
                              height |-> geom[1][4][2] - geom[1][2][2],
                              width  |-> geom[1][4][1] - geom[1][2][1]])
      [] annotation_type = "geo_polygon" ->
            Return("polygon" :> [i \in 1..Len(geom[1]) |->
                                    [x |-> geom[1][i][1], y |-> geom[1][i][2]]])
      [] annotation_type = "geo_line" ->
            Return("line" :> [i \in 1..Len(geom) |->
                                    [x |-> geom[i][1], y |-> geom[i][2]]])
      [] annotation_type = "geo_point" ->
            Return("point" :> [x |-> geom[1], y |-> geom[2]])
      [] annotation_type = "bbox" ->
            Return("bbox" :> [top |-> geom[1], left |-> geom[2],
                              height |-> geom[3], width |-> geom[4]])
      [] annotation_type \in {"polygon", "line"} ->
            Return(annotation_type :> [i \in 1..Len(geom) |->
                                    [x |-> geom[i][1], y |-> geom[i][2]]])
      [] annotation_type = "point" ->
            Return("point" :> [x |-> geom[1], y |-> geom[2]])
      [] annotation_type = "mask" ->
            IF mm = "url"
            THEN Return("mask" :> [instanceURI |-> geom[1], colorRGB |-> geom[2]])
            ELSE IF mm = "array"
            THEN Only({ IF Raised(png) THEN png ELSE Return("mask" :> [png |-> png.ret])
                        : png \in {mask_to_bytes(geom[1], mm, geom[2], "png")} })
            ELSE Return("mask" :> [png |-> geom[1]])
      [] OTHER -> Raise("KeyError", <<"d", "a", "t", "a">>)

\* lines 137-149: the classifications nested in a tool's annotation
ToolClassifications(top, nested_paths, idx, div, seed) ==
    Only({ Collect([i \in 1..Len(classification_names) |->
               classification_builder(
                   classification_names[i],
                   get_child_paths(classification_names[i], nested_paths, div),
                   idx, top, div, seed)])
           : classification_names \in
                 {pull_first_name_from_paths(nested_paths, div, seed)} })

\* lines 98-149: the top-level feature is a tool
ToolNdjson(top, annotation_type, input, idx, conf, mm, div, seed, uuid) ==
    LET head == ("uuid" :> uuid)
                @@ (IF conf
                    THEN "confidence" :> (IF Len(input) = 3 THEN input[3] ELSE PyNum(0))
                    ELSE <<>>)
                @@ ("name" :> top)
        geometry == Geometry(annotation_type, input[1], mm)
    IN  IF Raised(geometry) THEN geometry
        ELSE IF input[2] = <<>> THEN Return(head @@ geometry.ret)
        ELSE Only({ IF Raised(built) THEN built
                    ELSE Return(head @@ geometry.ret
                                @@ ("classifications" :> built.ret))
                    : built \in {ToolClassifications(top, input[2], idx, div, seed)} })

\* lines 150-161: the top-level feature is a classification
ClassificationNdjson(top, input, idx, conf, div, seed, uuid) ==
    Only({ IF Raised(built) THEN built
           ELSE Return((IF conf
                        THEN "confidence" :>
                                 (IF Len(input) = 2 THEN input[2] ELSE PyNum(0))
                        ELSE <<>>)
                       @@ built.ret @@ ("uuid" :> uuid))
           : built \in {IF "str" \in DOMAIN input[1]
                        THEN classification_builder(top, <<input[1].str>>, idx,
                                                    <<>>, div, seed)
                        ELSE classification_builder_nonstr(top, input[1], idx,
                                                           <<>>, div)} })

\* `uuid` is the value uuid.uuid4() draws in this call
ndjson_builder(top, input, idx, conf, mm, div, seed, uuid) ==
    LET entry == IndexLookup(idx, top)
        ptype == IndexLookup(idx, ProjectTypeKey)
    IN  IF Raised(entry) THEN entry
        ELSE IF Raised(ptype) THEN ptype
        ELSE LET annotation_type == IF ptype.ret = GeospatialTile
                                    THEN GeoType(entry.ret.type) ELSE entry.ret.type
             IN  IF annotation_type \in ToolTypes
                 THEN ToolNdjson(top, annotation_type, input, idx, conf, mm, div,
                                 seed, uuid)
                 ELSE ClassificationNdjson(top, input, idx, conf, div, seed, uuid)

\* `inputs` is tagged with its Python type: only a list is iterated.  A str
\* that is not empty would be parsed with json.loads first; the model has
\* lists, the empty str and None.  uuids[i] is drawn by the i-th call.
create_ndjsons(top, inputs, idx, conf, mm, div, seed, uuids) ==
    IF mm \notin {"url", "png", "array"}
    THEN Raise("ValueError", "Mask method must be either url, png or array")
    ELSE IF "list" \in DOMAIN inputs
    THEN Collect([i \in 1..Len(inputs.list) |->
             ndjson_builder(top, inputs.list[i], idx, conf, mm, div, seed, uuids[i])])
    ELSE Return(<<>>)

-----------------------------------------------------------------------------
(* annotate.py: the annotation decoder.                                    *)

RECURSIVE get_leaf_paths(_, _, _)
RECURSIVE AnswerLeafPaths(_, _, _)

\* the leaf paths below one answer, with a path for the answer of a branch too
AnswerLeafPaths_Branch(answer, name_path, div) ==
    LET new_path == name_path \o div \o answer.name
    IN  IF "classifications" \in DOMAIN answer /\ Len(answer.classifications) > 0
        THEN <<new_path>> \o get_leaf_paths(answer.classifications, new_path, div)
        ELSE <<new_path>>

\* lines 291-298 and 301-308: the leaf paths below one answer
AnswerLeafPaths(answer, name_path, div) ==
    LET new_path == name_path \o div \o answer.name
    IN  IF "classifications" \in DOMAIN answer /\ Len(answer.classifications) > 0
        THEN get_leaf_paths(answer.classifications, new_path, div)
        ELSE <<new_path>>

\* lines 282-308: the leaf paths of one classification
ClassificationLeafPaths(classification, current_path, div) ==
    LET named == IF current_path = <<>> THEN classification.name
                 ELSE current_path \o div \o classification.name
        text  == "text_answer" \in DOMAIN classification
        name_path == IF text
                     THEN named \o div \o classification.text_answer.content
                     ELSE named
        RECURSIVE Each(_)
        Each(answers) ==
            IF answers = <<>> THEN <<>>
            ELSE AnswerLeafPaths(answers[1], name_path, div) \o Each(Tail(answers))
    IN  (IF text THEN <<name_path>> ELSE <<>>)
        \o (IF "checklist_answers" \in DOMAIN classification
            THEN Each(classification.checklist_answers) ELSE <<>>)
        \o (IF "radio_answer" \in DOMAIN classification
            THEN AnswerLeafPaths(classification.radio_answer, name_path, div)
            ELSE <<>>)

get_leaf_paths(classifications, current_path, div) ==
    IF classifications = <<>> THEN <<>>
    ELSE ClassificationLeafPaths(classifications[1], current_path, div)
         \o get_leaf_paths(Tail(classifications), current_path, div)

-----------------------------------------------------------------------------
(* Inputs of the encoder: an ontology, the indexes made of it, and         *)
(* annotation values.                                                      *)

Car      == <<"c", "a", "r">>
Damaged  == <<"d", "a", "m", "a", "g", "e", "d">>
Yes      == <<"y", "e", "s">>
No       == <<"n", "o">>
Severity == <<"s", "e", "v", "e", "r", "i", "t", "y">>
Low      == <<"l", "o", "w">>
High     == <<"h", "i", "g", "h">>
Comment  == <<"c", "o", "m", "m", "e", "n", "t">>
HelloWorld == <<"h", "e", "l", "l", "o", " ", "w", "o", "r", "l", "d">>
Weather  == <<"w", "e", "a", "t", "h", "e", "r">>
Sunny    == <<"s", "u", "n", "n", "y">>
Rainy    == <<"r", "a", "i", "n", "y">>
Spot     == <<"s", "p", "o", "t">>
Area     == <<"a", "r", "e", "a">>
Seg      == <<"s", "e", "g">>
Ent      == <<"e", "n", "t">>
Ghost    == <<"g", "h", "o", "s", "t">>
Bogus    == <<"b", "o", "g", "u", "s">>

\* divider.join(segments)
RECURSIVE Path(_)
Path(segments) ==
    IF Len(segments) = 1 THEN segments[1]
    ELSE segments[1] \o DIV \o Path(Tail(segments))

Tool(type, name, classifications) ==
    [tool |-> type, name |-> name, classifications |-> classifications]

Classification(type, name, options) ==
    [type |-> type, instructions |-> name, options |-> options]

Option(name) == [label |-> name]

BranchOption(name, classifications) == [label |-> name, options |-> classifications]

DemoOntology ==
    Normalized(
        << Tool("bbox", Car,
                << Classification("radio", Damaged,
                       << BranchOption(Yes,
                              << Classification("radio", Severity,
                                                <<Option(Low), Option(High)>>) >>),
                          Option(No) >>),
                   Classification("checklist", Color, <<Option(Red), Option(Blue)>>),
                   Classification("checklist", Colors, <<Option(X)>>) >>),
           Tool("point", Spot, <<>>),
           Tool("polygon", Area, <<>>),
           Tool("mask", Seg, <<>>),
           Tool("named-entity", Ent, <<>>) >>,
        << Classification("checklist", Color, <<Option(Red), Option(Blue)>>),
           Classification("text", Comment, <<>>),
           Classification("radio", Weather, <<Option(Sunny), Option(Rainy)>>) >>)

\* the index the encoder's docstring names
DemoIndex ==
    get_ontology_schema_to_name_path(
        [pytype |-> "dict", normalized |-> DemoOntology], DIV, TRUE, TRUE).ret

\* an index to which a caller has added the key 'project_type'
WithProjectType(idx, media_type) == DictSet(idx, ProjectTypeKey, media_type)

\* the indexes of the specification's scenarios: per-path type entries only
CarIndex ==
    (Car :> [type |-> "bbox"]) @@ (Path(<<Car, Damaged>>) :> [type |-> "radio"])

CommentIndex == Comment :> [type |-> "text"]

BBox == <<10, 20, 30, 40>>

\* nested name paths of a car, rooted at the nested classification
CarNested ==
    << <<>>,
       <<Path(<<Damaged, Yes>>)>>,
       <<Path(<<Damaged, No>>)>>,
       <<Path(<<Damaged, Yes, Severity, Low>>)>>,
       <<Path(<<Color, Red>>), Path(<<Color, Blue>>)>>,
       <<Path(<<Color, Red>>), Path(<<Colors, X>>)>>,
       <<Path(<<Damaged, Yes>>), Path(<<Color, Red>>)>>,
       <<Path(<<Bogus, X>>)>>,
       <<Path(<<Damaged, Yes, Bogus, X>>)>> >>

\* one value of one top-level feature, with the mask method of the call
Value(top, value, mm) == [top |-> top, value |-> value, mm |-> mm]

\* values of the tools: bounding box, point, polygon, mask, named entity
ToolValues ==
    [k \in 1..Len(CarNested) |-> Value(Car, <<BBox, CarNested[k]>>, "url")]
    \o << Value(Car, <<BBox, <<>>, PyNum(1)>>, "url"),
          Value(Car, <<BBox, <<Path(<<Damaged, Yes>>)>>, PyNum(1)>>, "url"),
          Value(Spot, <<<<1, 2>>, <<>>>>, "url"),
          Value(Area, << <<<<1, 2>>, <<3, 4>>, <<5, 6>>>>, <<>> >>, "url"),
          Value(Seg, << <<"mask", <<255, 255, 255>>>>, <<>> >>, "url"),
          Value(Seg, << <<"mask", <<255, 255, 255>>>>, <<>> >>, "array"),
          Value(Seg, << <<"mask", <<255, 255, 255>>>>, <<>> >>, "png"),
          Value(Ent, << <<3, 7>>, <<>> >>, "url") >>

\* answer name paths of the top-level classifications, rooted at the
\* classification or below it
ClassificationPaths ==
    << [top |-> Color, paths |-> <<Path(<<Color, Red>>), Path(<<Color, Blue>>)>>],
       [top |-> Color, paths |-> <<Red, Blue>>],
       [top |-> Color, paths |-> <<Red>>],
       [top |-> Comment, paths |-> <<Path(<<Comment, HelloWorld>>)>>],
       [top |-> Comment, paths |-> <<HelloWorld>>],
       [top |-> Weather, paths |-> <<Path(<<Weather, Sunny>>)>>],
       [top |-> Weather, paths |-> <<Sunny>>] >>

\* A classification value is the list of answer name paths itself (what
\* flatten_label stores), or a list holding that list (what the docstring of
\* create_ndjsons shows), with or without a confidence score.
ClassificationValueShapes(c) ==
    << Value(c.top, [i \in 1..Len(c.paths) |-> PyStr(c.paths[i])], "url"),
       Value(c.top, <<PyList(c.paths)>>, "url"),
       Value(c.top, <<PyList(c.paths), PyNum(1)>>, "url"),
       Value(c.top, <<PyStr(c.paths[1]), PyNum(1)>>, "url") >>

ClassificationValues ==
    [k \in 1..(4 * Len(ClassificationPaths)) |->
        ClassificationValueShapes(ClassificationPaths[((k - 1) \div 4) + 1])[((k - 1) % 4) + 1]]

\* values of a geospatial project
GeoValues ==
    << Value(Car, << << << <<0, 0>>, <<1, 2>>, <<0, 5>>, <<4, 6>>, <<0, 0>> >> >>,
                     <<Path(<<Damaged, Yes>>)>> >>, "url"),
       Value(Spot, <<<<1, 2>>, <<>>>>, "url"),
       Value(Weather, <<PyStr(Sunny)>>, "url") >>

\* values for a name no ontology holds, and for the two scenario indexes
GhostValues ==
    << Value(Ghost, <<BBox, <<>>>>, "url"), Value(Ghost, <<BBox, <<>>>>, "jpeg"),
       Value(Ghost, <<PyStr(Red)>>, "url"), Value(Ghost, <<PyStr(Red)>>, "jpeg") >>

CarScenarioValues ==
    << Value(Car, <<BBox, <<Path(<<Damaged, Yes>>)>>>>, "url"),
       Value(Car, <<BBox, <<>>>>, "url") >>

CommentScenarioValues ==
    << Value(Comment, <<PyStr(Path(<<Comment, HelloWorld>>))>>, "url"),
       Value(Comment, <<PyStr(HelloWorld)>>, "url") >>

\* the indexes of the calls: the index as the indexer returns it, the index
\* with 'project_type' added for an image and for a geospatial project, and
\* the two scenario indexes without and with 'project_type'
IndexVariants == {"demo", "demo+image", "demo+geo", "car", "car+image",
                  "comment", "comment+image"}

EncoderIndex(variant) ==
    CASE variant = "demo" -> DemoIndex
      [] variant = "demo+image" -> WithProjectType(DemoIndex, "MediaType.Image")
      [] variant = "demo+geo" -> WithProjectType(DemoIndex, GeospatialTile)
      [] variant = "car" -> CarIndex
      [] variant = "car+image" -> WithProjectType(CarIndex, "MediaType.Image")
      [] variant = "comment" -> CommentIndex
      [] OTHER -> WithProjectType(CommentIndex, "MediaType.Image")

\* the values the calls with an index encode
EncoderValues(variant) ==
    CASE variant \in {"demo", "demo+image"} ->
             ToolValues \o ClassificationValues \o GhostValues
      [] variant = "demo+geo" -> GeoValues
      [] variant \in {"car", "car+image"} -> CarScenarioValues
      [] OTHER -> CommentScenarioValues

\* the annotation_inputs a caller passes for a value: a list of one or two
\* values, an empty list, or something that is no list
InputLists(value) ==
    <<PyList(<<value>>), PyList(<<value, value>>), PyList(<<>>), PyStr(<<>>), None>>

\* what uuid.uuid4() can draw
UUIDs == {"uuid-1", "uuid-2"}

\* direct calls of classification_builder: (tool name, classification path,
\* answer paths)
BuilderCalls ==
    [tool : {Car}, cpath : {Damaged},
     apaths : { <<>>, <<Yes>>, <<No>>, <<Yes, No>>, <<No, Yes>>, <<Yes, Yes>>,
                <<Path(<<Yes, Severity, Low>>)>>,
                <<Path(<<Yes, Severity, Low>>), Path(<<Yes, Severity, High>>)>>,
                <<Path(<<Yes, Severity, Low>>), No>>,
                <<Path(<<Yes, Bogus, X>>)>> }]
    \cup [tool : {Car}, cpath : {Color},
          apaths : { <<>>, <<Red>>, <<Red, Blue>>, <<Blue, Red>>, <<Red, Red>> }]
    \cup [tool : {<<>>}, cpath : {Weather},
          apaths : { <<Sunny>>, <<Sunny, Rainy>>, <<Rainy, Sunny>> }]
    \cup [tool : {<<>>}, cpath : {Comment}, apaths : { <<>>, <<HelloWorld>> }]
    \cup [tool : {Car, <<>>}, cpath : {Bogus}, apaths : { <<X>> }]

EncoderInit ==
    /\ hashseed \in HashSeeds
    /\ divider = DIV
    /\ ServiceIdle
    /\ CodecIdle
    /\ IndexIdle
    /\ annotation_input = None /\ ndjson = None /\ ndjsons = None
    /\ classification_ndjson = None /\ leaf_paths = None
    /\ \/ /\ pc = "start"
          /\ \E variant \in IndexVariants :
                /\ ontology_index = EncoderIndex(variant)
                /\ \E k \in 1..Len(EncoderValues(variant)), shape \in 1..5 :
                      LET call == EncoderValues(variant)[k]
                      IN  /\ top_level_name = call.top
                          /\ mask_method = call.mm
                          /\ annotation_inputs = InputLists(call.value)[shape]
          /\ confidence \in BOOLEAN
          /\ classification_path = None /\ answer_paths = None /\ tool_name = None
       \/ /\ pc = "start_builder"
          /\ ontology_index = DemoIndex
          /\ \E c \in BuilderCalls :
                /\ tool_name = c.tool
                /\ classification_path = c.cpath
                /\ answer_paths = c.apaths
          /\ top_level_name = None /\ annotation_inputs = None
          /\ confidence = None /\ mask_method = None

\* ndjsons = create_ndjsons(top_level_name, annotation_inputs, ontology_index, ..)
RunCreateNdjsons ==
    /\ pc = "start"
    /\ \E uuids \in {u \in [1..2 -> UUIDs] : u[1] # u[2]} :
          ndjsons' = create_ndjsons(top_level_name, annotation_inputs, ontology_index,
                                    confidence, mask_method, divider, hashseed, uuids)
    /\ pc' = "created"
    /\ UNCHANGED <<serviceVars, commonVars, codecVars, indexVars, ontology_index, top_level_name,
                   annotation_inputs, annotation_input, confidence, mask_method,
                   ndjson, classification_path, answer_paths, tool_name,
                   classification_ndjson, leaf_paths>>

\* ndjson = ndjson_builder(top_level_name, annotation_input, ontology_index, ..)
\* for one of the annotation inputs
RunNdjsonBuilder ==
    /\ pc = "start"
    /\ "list" \in DOMAIN annotation_inputs
    /\ \E i \in 1..Len(annotation_inputs.list), uuid \in UUIDs :
          /\ annotation_input' = annotation_inputs.list[i]
          /\ ndjson' = ndjson_builder(top_level_name, annotation_inputs.list[i],
                                      ontology_index, confidence, mask_method,
                                      divider, hashseed, uuid)
    /\ pc' = "encoded"
    /\ UNCHANGED <<serviceVars, commonVars, codecVars, indexVars, ontology_index, top_level_name,
                   annotation_inputs, confidence, mask_method, ndjsons,
                   classification_path, answer_paths, tool_name,
                   classification_ndjson, leaf_paths>>

\* classification_ndjson = classification_builder(classification_path, ..)
RunClassificationBuilder ==
    /\ pc = "start_builder"
    /\ classification_ndjson' =
           classification_builder(classification_path, answer_paths, ontology_index,
                                  tool_name, divider, hashseed)
    /\ pc' = "classified"
    /\ UNCHANGED <<serviceVars, commonVars, codecVars, indexVars, ontology_index, top_level_name,
                   annotation_inputs, annotation_input, confidence, mask_method,
                   ndjson, ndjsons, classification_path, answer_paths, tool_name,
                   leaf_paths>>

\* the classifications of an annotation tree the encoder returned: those
\* nested in a tool's object, or the object itself for a classification
TreeClassifications(tree) ==
    IF "answer" \in DOMAIN tree \/ "answers" \in DOMAIN tree THEN <<tree>>
    ELSE IF "classifications" \in DOMAIN tree THEN tree.classifications
    ELSE <<>>

\* leaf_paths = get_leaf_paths(<the tree the encoder returned>)
RunGetLeafPaths ==
    /\ \/ /\ pc = "encoded" /\ Returned(ndjson)
          /\ leaf_paths' = get_leaf_paths(TreeClassifications(ndjson.ret), <<>>, divider)
       \/ /\ pc = "classified" /\ Returned(classification_ndjson)
          /\ leaf_paths' = get_leaf_paths(<<classification_ndjson.ret>>, <<>>, divider)
    /\ pc' = "decoded"
    /\ UNCHANGED <<serviceVars, commonVars, codecVars, indexVars, ontology_index, top_level_name,
                   annotation_inputs, annotation_input, confidence, mask_method,
                   ndjson, ndjsons, classification_path, answer_paths, tool_name,
                   classification_ndjson>>

EncoderNext ==
    \/ RunCreateNdjsons
    \/ RunNdjsonBuilder
    \/ RunClassificationBuilder
    \/ RunGetLeafPaths

SpecEncoder == EncoderInit /\ [][EncoderNext]_vars

-----------------------------------------------------------------------------
(* What the encoder and the decoder are specified to do.                   *)

\* a call of ndjson_builder has ended for a top-level name the index holds
EncodedKnown == pc = "encoded" /\ top_level_name \in DOMAIN ontology_index

\* the call was for a tool / for a classification of the given type
EncodedTool == EncodedKnown /\ ontology_index[top_level_name].type \in ToolTypes

EncodedClassification(type) ==
    EncodedKnown /\ ontology_index[top_level_name].type = type

\* the index carries the key 'project_type' next to its name paths
HasProjectType == ProjectTypeKey \in DOMAIN ontology_index

\* the name paths of a classification value, in either shape of the value
ValuePaths(v) ==
    IF "str" \in DOMAIN v[1]
    THEN [i \in 1..Len(SelectSeq(v, LAMBDA e : "str" \in DOMAIN e)) |->
             SelectSeq(v, LAMBDA e : "str" \in DOMAIN e)[i].str]
    ELSE v[1].list

\* a name path with the name of its classification in front of it removed
Unrooted(p, top, div) == IF StartsWith(p, top \o div) THEN StripFirst(p, div) ELSE p

\* the answers a classification of the index may be given: existing options,
\* one of them for a radio; one free text for a text
LegalAnswers(idx, key, paths, div) ==
    /\ key \in DOMAIN idx
    /\ paths # <<>>
    /\ \A i, j \in 1..Len(paths) : paths[i] = paths[j] => i = j
    /\ CASE idx[key].type = "radio" ->
                Len(paths) = 1 /\ (key \o div \o paths[1]) \in DOMAIN idx
         [] idx[key].type = "checklist" ->
                \A i \in 1..Len(paths) : (key \o div \o paths[i]) \in DOMAIN idx
         [] OTHER -> Len(paths) = 1

\* the nested paths a tool may be given: legal answers for each nested
\* classification they name
LegalNested(idx, top, nested, div) ==
    \A f \in {FirstSegment(nested[i], div) : i \in 1..Len(nested)} :
        LegalAnswers(idx, top \o div \o f, ChildrenOf(f, nested, div), div)

\* C1: flattening the tree the encoder built for a legal value gives back
\* the name paths of the value, as a set: the nested paths of a tool, the
\* answer paths under the name of a classification.
C1_RoundTrip ==
    /\ (pc = "decoded" /\ Returned(ndjson)
        /\ ontology_index[top_level_name].type \in ToolTypes
        /\ LegalNested(ontology_index, top_level_name, annotation_input[2], divider))
       => Range(leaf_paths) = Range(annotation_input[2])
    /\ (pc = "decoded" /\ Returned(classification_ndjson)
        /\ LegalAnswers(ontology_index,
                        IF tool_name = <<>> THEN classification_path
                        ELSE tool_name \o divider \o classification_path,
                        answer_paths, divider))
       => Range(leaf_paths) =
              {classification_path \o divider \o answer_paths[i] :
                   i \in 1..Len(answer_paths)}

\* C6: classification_builder on a radio with a non-empty list of answer
\* paths, when it returns, returns one `answer` named after the first
\* segment of the first answer path, and no `answers`.
C6_RadioExclusivity ==
    (pc = "classified" /\ Returned(classification_ndjson)
     /\ classification_path \in {Damaged, Weather} /\ answer_paths # <<>>)
    => /\ "answer" \in DOMAIN classification_ndjson.ret
       /\ "answers" \notin DOMAIN classification_ndjson.ret
       /\ classification_ndjson.ret.answer.name = FirstSegment(answer_paths[1], divider)

\* C7: ndjson_builder on a top-level checklist returns an object without
\* `answer` whose `answers` are named, as a set, after the answer names of
\* the value: red and blue for ["color///red", "color///blue"].
C7_ChecklistMultiplicity ==
    (EncodedClassification("checklist") /\ HasProjectType)
    => /\ Returned(ndjson)
       /\ "answer" \notin DOMAIN ndjson.ret
       /\ "answers" \in DOMAIN ndjson.ret
       /\ {ndjson.ret.answers[i].name : i \in 1..Len(ndjson.ret.answers)}
              = {FirstSegment(Unrooted(p, top_level_name, divider), divider) :
                     p \in Range(ValuePaths(annotation_input))}

\* C8: ndjson_builder on a bbox value with an index holding only the type
\* entries of the name paths returns uuid, name, bbox = {top, left, height,
\* width} in the order of the inputs, and one classification for each first
\* segment of the nested paths; for {car: bbox, car///damaged: radio} and
\* ([10,20,30,40], ["damaged///yes"]) it returns the specified object.
C8_BBoxEncoding ==
    (EncodedKnown /\ ~HasProjectType /\ ontology_index[top_level_name].type = "bbox"
     /\ LegalNested(ontology_index, top_level_name, annotation_input[2], divider))
    => /\ Returned(ndjson)
       /\ ndjson.ret.uuid \in UUIDs
       /\ ndjson.ret.name = top_level_name
       /\ ndjson.ret.bbox = [top |-> annotation_input[1][1], left |-> annotation_input[1][2],
                             height |-> annotation_input[1][3], width |-> annotation_input[1][4]]
       /\ LET built == IF "classifications" \in DOMAIN ndjson.ret
                       THEN ndjson.ret.classifications ELSE <<>>
              seg   == {FirstSegment(annotation_input[2][i], divider) :
                            i \in 1..Len(annotation_input[2])}
          IN  /\ Len(built) = Cardinality(seg)
              /\ {built[i].name : i \in 1..Len(built)} = seg
       /\ (DOMAIN ontology_index = DOMAIN CarIndex
           /\ annotation_input[2] = <<Path(<<Damaged, Yes>>)>>)
          => ndjson.ret.classifications
                 = <<[name |-> Damaged, answer |-> [name |-> Yes]]>>

\* C9: ndjson_builder on a top-level text classification whose value is the
\* name path <name><divider><text> returns {uuid, name, answer: <text>}.
C9_TextAnswer ==
    (EncodedClassification("text") /\ HasProjectType
     /\ "str" \in DOMAIN annotation_input[1]
     /\ StartsWith(annotation_input[1].str, top_level_name \o divider))
    => /\ Returned(ndjson)
       /\ DOMAIN ndjson.ret = {"uuid", "name", "answer"} \cup
              (IF confidence THEN {"confidence"} ELSE {})
       /\ ndjson.ret.name = top_level_name
       /\ ndjson.ret.answer = StripFirst(annotation_input[1].str, divider)

\* every classification of a built tree, with its answers' nested ones, has
\* its name path in the index
RECURSIVE BuiltPathsIndexed(_, _, _, _)
BuiltPathsIndexed(built, parent, idx, div) ==
    \A i \in 1..Len(built) :
        LET key == IF parent = <<>> THEN built[i].name
                   ELSE parent \o div \o built[i].name
            answers == IF "answers" \in DOMAIN built[i] THEN built[i].answers
                       ELSE IF idx[key].type = "radio" THEN <<built[i].answer>>
                       ELSE <<>>
        IN  /\ key \in DOMAIN idx
            /\ \A j \in 1..Len(answers) :
                  "classifications" \in DOMAIN answers[j]
                  => BuiltPathsIndexed(answers[j].classifications,
                                       key \o div \o answers[j].name, idx, div)

\* C10: with a top-level name the index does not hold, ndjson_builder raises
\* KeyError for the name, and create_ndjsons raises or, given nothing to
\* encode, returns no object; with a nested classification path the index
\* does not hold, the builders raise KeyError; no returned object has a
\* classification whose path is absent from the index.
C10_LookupMiss ==
    /\ (pc = "encoded" /\ top_level_name \notin DOMAIN ontology_index)
       => (Raised(ndjson) /\ ndjson.exc = "KeyError" /\ ndjson.arg = top_level_name)
    /\ (pc = "created" /\ top_level_name \notin DOMAIN ontology_index)
       => \/ Raised(ndjsons)
               /\ \/ ndjsons.exc = "ValueError"
                  \/ ndjsons.exc = "KeyError" /\ ndjsons.arg = top_level_name
          \/ Returned(ndjsons) /\ ndjsons.ret = <<>>
    /\ (EncodedTool
        /\ \E i \in 1..Len(annotation_input[2]) :
              (top_level_name \o divider \o FirstSegment(annotation_input[2][i], divider))
                  \notin DOMAIN ontology_index)
       => (Raised(ndjson) /\ ndjson.exc = "KeyError")
    /\ EncodedTool /\ Returned(ndjson) /\ "classifications" \in DOMAIN ndjson.ret
       => BuiltPathsIndexed(ndjson.ret.classifications, top_level_name,
                            ontology_index, divider)
    /\ (pc = "classified"
        /\ (IF tool_name = <<>> THEN classification_path
            ELSE tool_name \o divider \o classification_path) \notin DOMAIN ontology_index)
       => (Raised(classification_ndjson) /\ classification_ndjson.exc = "KeyError")
    /\ (pc = "classified" /\ Returned(classification_ndjson))
       => BuiltPathsIndexed(<<classification_ndjson.ret>>, tool_name,
                            ontology_index, divider)

\* a call of ndjson_builder for a name that no index of the model holds has
\* ended, and it raised
C10_Witness ==
    /\ pc = "encoded"
    /\ top_level_name = Ghost
    /\ top_level_name \notin DOMAIN ontology_index
    /\ Raised(ndjson)

\* C11: ndjson_builder on a named-entity value ((start, end), nested paths)
\* returns an object named after the tool with a location {start, end}
\* holding the two offsets.
C11_NamedEntityLocation ==
    (EncodedKnown /\ HasProjectType
     /\ ontology_index[top_level_name].type = "named-entity")
    => /\ Returned(ndjson)
       /\ ndjson.ret.name = top_level_name
       /\ \/ /\ "location" \in DOMAIN ndjson.ret
             /\ ndjson.ret.location = [start |-> annotation_input[1][1],
                                       end |-> annotation_input[1][2]]
          \/ /\ "data" \in DOMAIN ndjson.ret
             /\ ndjson.ret.data = [location |-> [start |-> annotation_input[1][1],
                                                 end |-> annotation_input[1][2]]]

\* the trailing element of an annotation value when it is a number: the
\* third element of a tool's value, a numeric last element of a
\* classification's value
TrailingScore(v, is_tool) ==
    IF is_tool THEN (IF Len(v) = 3 THEN v[3] ELSE PyNum(0))
    ELSE IF "num" \in DOMAIN v[Len(v)] THEN v[Len(v)] ELSE PyNum(0)

\* C12: with confidence enabled every object ndjson_builder returns has a
\* confidence equal to the trailing number of the value, 0.0 when there is
\* none; with confidence disabled it has no confidence key.
C12_Confidence ==
    (pc = "encoded" /\ Returned(ndjson))
    => IF confidence
       THEN /\ "confidence" \in DOMAIN ndjson.ret
            /\ ndjson.ret.confidence =
                   TrailingScore(annotation_input,
                                 ontology_index[top_level_name].type \in ToolTypes)
       ELSE "confidence" \notin DOMAIN ndjson.ret

-----------------------------------------------------------------------------
(* uploader.py: batch_create_data_rows.                                    *)

\* the pure transformations take no part in a run of a service component
PureIdle ==
    /\ hashseed = "asc" /\ divider = DIV
    /\ CodecIdle /\ IndexIdle /\ EncoderIdle

\* most data rows of an upload
MaxRows == 3
\* largest batch size of an upload
MaxBatchSize == 2

\* the default error message
Success == <<"S", "u", "c", "c", "e", "s", "s">>

GlobalKeys == <<"gk1", "gk2", "gk3", "gk4">>

DatasetIds == {"ds1", "ds2"}

\* upload dictionaries: global key -> {data_row, dataset_id}, in insertion
\* order; a data row is known by its global key
UploadDicts ==
    UNION { [1..n -> DatasetIds] : n \in 0..MaxRows }

UploadDict(datasets) ==
    [k \in 1..Len(datasets) |->
        [global_key |-> GlobalKeys[k], dataset_id |-> datasets[k], suffix |-> 0]]

\* lines 113-135: the global keys in use are dropped from the upload, or get
\* a suffix and move to the end of the dictionary
Vetted(dict, existing, skip) ==
    LET kept  == SelectSeq(dict, LAMBDA u : u.global_key \notin existing)
        taken == SelectSeq(dict, LAMBDA u : u.global_key \in existing)
    IN  IF skip THEN kept
        ELSE kept \o [k \in 1..Len(taken) |-> [taken[k] EXCEPT !.suffix = 1]]

\* lines 139-144: the data rows of each dataset, datasets in the order of
\* their first data row
RECURSIVE GroupByDataset(_, _)
GroupByDataset(dict, grouped) ==
    IF dict = <<>> THEN grouped
    ELSE LET u == dict[1]
             at == {k \in 1..Len(grouped) : grouped[k].dataset_id = u.dataset_id}
         IN  GroupByDataset(Tail(dict),
                 IF at = {}
                 THEN Append(grouped, [dataset_id |-> u.dataset_id,
                                       upload_list |-> <<u.global_key>>])
                 ELSE [k \in 1..Len(grouped) |->
                          IF k \in at
                          THEN [grouped[k] EXCEPT
                                   !.upload_list = Append(@, u.global_key)]
                          ELSE grouped[k]])

\* line 153: upload_list[i:] or upload_list[i:i+batch_size]
Batch(upload_list, i, size) ==
    SubSeq(upload_list, i + 1,
           IF i + size >= Len(upload_list) THEN Len(upload_list) ELSE i + size)

UploaderInit ==
    /\ pc = "vet"
    /\ PureIdle
    /\ NotUploaderIdle
    /\ \E datasets \in UploadDicts : upload_dict = UploadDict(datasets)
    /\ skip_duplicates \in BOOLEAN
    /\ batch_size \in 1..MaxBatchSize
    /\ dataset_id_to_upload_list = None
    /\ dataset_cursor = None /\ batch_cursor = None
    /\ upload_errors = Success
    /\ create_calls = <<>>
    /\ upload_result = None

\* lines 109-144: the global keys are vetted against those check_global_keys
\* reports in use, and the uploads are grouped by dataset
VetAndGroup ==
    /\ pc = "vet"
    /\ \E existing \in SUBSET {upload_dict[k].global_key : k \in 1..Len(upload_dict)} :
          /\ upload_dict' = Vetted(upload_dict, existing, skip_duplicates)
          /\ dataset_id_to_upload_list' =
                 GroupByDataset(Vetted(upload_dict, existing, skip_duplicates), <<>>)
          /\ pc' = IF Vetted(upload_dict, existing, skip_duplicates) = <<>>
                   THEN "return" ELSE "upload"
    /\ dataset_cursor' = 1
    /\ batch_cursor' = 0
    /\ UNCHANGED <<pureVars, notUploaderVars, skip_duplicates, batch_size, upload_errors, create_calls,
                   upload_result>>

\* lines 152-165, one iteration of the loop over the batches of a dataset.
\* create_data_rows hands back the task of the batch, and line 158 reads
\* task.errors with no wait_till_done before it: the task has completed by
\* then or it has not, and only a task that has completed has errors to read
\* (the rows the remote service failed on)
CreateDataRows ==
    /\ pc = "upload"
    /\ LET upload_list == dataset_id_to_upload_list[dataset_cursor].upload_list
           batch == Batch(upload_list, batch_cursor, batch_size)
       IN  \E completed \in BOOLEAN :
           \E errors \in IF completed THEN {<<>>, <<batch[1]>>} ELSE {<<>>} :
              /\ create_calls' = Append(create_calls,
                     [dataset_id |-> dataset_id_to_upload_list[dataset_cursor].dataset_id,
                      batch |-> batch, errors |-> errors, completed |-> completed])
              /\ upload_errors' = IF errors # <<>> THEN errors ELSE upload_errors
              /\ IF errors # <<>> \/ batch_cursor + batch_size >= Len(upload_list)
                 THEN \* break, or the range is exhausted: the next dataset
                      /\ dataset_cursor' = dataset_cursor + 1
                      /\ batch_cursor' = 0
                      /\ pc' = IF dataset_cursor = Len(dataset_id_to_upload_list)
                               THEN "return" ELSE "upload"
                 ELSE /\ batch_cursor' = batch_cursor + batch_size
                      /\ UNCHANGED <<dataset_cursor, pc>>
    /\ UNCHANGED <<pureVars, notUploaderVars, upload_dict, skip_duplicates, batch_size,
                   dataset_id_to_upload_list, upload_result>>

\* line 169: return e, upload_dict
ReturnUpload ==
    /\ pc = "return"
    /\ upload_result' = <<upload_errors, upload_dict>>
    /\ pc' = "done"
    /\ UNCHANGED <<pureVars, notUploaderVars, upload_dict, skip_duplicates, batch_size,
                   dataset_id_to_upload_list, dataset_cursor, batch_cursor,
                   upload_errors,
                   create_calls>>

UploaderNext ==
    \/ VetAndGroup
    \/ CreateDataRows
    \/ ReturnUpload

SpecUploader == UploaderInit /\ [][UploaderNext]_vars

\* the calls of create_data_rows that reported errors
FailedCalls == {k \in 1..Len(create_calls) : create_calls[k].errors # <<>>}

\* C13: once create_data_rows has reported errors for a batch no further
\* call is issued, for any dataset, and batch_create_data_rows returns the
\* errors of that batch.
C13_HaltAfterFailure ==
    pc \in {"upload", "return", "done"}
    => /\ \A k \in FailedCalls : k = Len(create_calls)
       /\ (pc = "done" /\ FailedCalls # {})
          => upload_result[1] = create_calls[Min(FailedCalls)].errors


-----------------------------------------------------------------------------
(* uploader.check_global_keys: for every batch of global keys, submit a    *)
(* query job, poll its result, and repeat both while the result is falsy.  *)

\* longest list of global keys that is checked
MaxKeys == 2

\* str(x) of line 54, on the keys that are generated
str(x) == IF "str" \in DOMAIN x THEN x.str ELSE <<"7">>
\* the `global_keys` arguments: lists of strings and numbers
KeyInputs == <<PyStr(<<"a">>), PyStr(<<"b">>), PyNum(7)>>
KeyLists == UNION { [1..n -> 1..Len(KeyInputs)] : n \in 0..MaxKeys }
\* the job ids the service hands out
JobIds == {"job1", "job2"}
\* the ids of the data rows the service knows; "" stands for a key without a data row
DataRowIds == {"", "dr1", "dr2"}
\* a non-empty `data` of dataRowsForGlobalKeysResult for a batch of n keys
JobResults(n) == { [fetchedDataRows |-> rows] : rows \in [1..n -> DataRowIds] }
\* bool(res) of line 64: None and {} are falsy, a result dictionary is not
Truthy(r) == r # None

\* global_keys_list[i:] or global_keys_list[i:i+batch_size], line 61 (i is 0-based)
BatchGks(list, i, size) == SubSeq(list, i + 1, Min({i + size, Len(list)}))

\* lines 68-71: existing_drid_to_gk[data_row_id] = batch_gks[i], for non-empty ids, in order
RECURSIVE FillExisting(_, _, _, _)
FillExisting(existing, rows, batch_gks, i) ==
    IF i > Len(rows) THEN existing
    ELSE FillExisting(
            IF rows[i] # ""
            THEN [id \in DOMAIN existing \cup {rows[i]} |->
                     IF id = rows[i] THEN batch_gks[i] ELSE existing[id]]
            ELSE existing,
            rows, batch_gks, i + 1)

NoEntries == [id \in {} |-> <<>>]

\* check_global_keys is called: lines 52-54, and line 60 for the first batch
PollerInit ==
    /\ PureIdle
    /\ NotPollerIdle
    /\ \E keys \in KeyLists :
          global_keys_list = [k \in DOMAIN keys |-> str(KeyInputs[keys[k]])]
    /\ check_batch_size \in 1..MaxKeys
    /\ check_cursor = 0
    /\ query_job_id = ""    \* not assigned yet
    /\ res = None
    /\ existing_drid_to_gk = NoEntries
    /\ check_result = None
    /\ pc = IF global_keys_list = <<>> THEN "return" ELSE "submit"

\* line 65: the query job of the batch is submitted, the service answers with a job id
SubmitJob ==
    /\ pc = "submit"
    /\ ~Truthy(res)
    /\ \E job \in JobIds \ {query_job_id} : query_job_id' = job
    /\ pc' = "poll"
    /\ UNCHANGED <<pureVars, notPollerVars, global_keys_list, check_batch_size,
                   check_cursor, res, existing_drid_to_gk, check_result>>

\* line 66: the result of the job is fetched; a falsy result goes round the loop of
\* line 64 again, any other ends it, fills the dictionary (67-71) and moves on to the
\* next batch (60) or to the return (72)
PollJob ==
    /\ pc = "poll"
    /\ LET batch_gks == BatchGks(global_keys_list, check_cursor, check_batch_size)
       IN  \E data \in {None} \cup JobResults(Len(batch_gks)) :
              IF ~Truthy(data)
              THEN /\ res' = data
                   /\ pc' = "submit"
                   /\ UNCHANGED <<check_cursor, existing_drid_to_gk>>
              ELSE /\ existing_drid_to_gk' =
                          FillExisting(existing_drid_to_gk, data.fetchedDataRows, batch_gks, 1)
                   /\ check_cursor' = check_cursor + check_batch_size
                   /\ IF check_cursor' < Len(global_keys_list)
                      THEN res' = None /\ pc' = "submit"
                      ELSE res' = data /\ pc' = "return"
    /\ UNCHANGED <<pureVars, notPollerVars, global_keys_list, check_batch_size,
                   query_job_id, check_result>>

\* line 72
ReturnExisting ==
    /\ pc = "return"
    /\ check_result' = existing_drid_to_gk
    /\ pc' = "checked"
    /\ UNCHANGED <<pureVars, notPollerVars, global_keys_list, check_batch_size,
                   check_cursor, query_job_id, res, existing_drid_to_gk>>

PollerNext ==
    \/ SubmitJob
    \/ PollJob
    \/ ReturnExisting

SpecPoller == PollerInit /\ [][PollerNext]_vars

\* the interpreter always takes the next step of the call, and the service always
\* answers: whatever step is enabled is eventually taken
SpecPollerFair == SpecPoller /\ WF_vars(PollerNext)

\* C14: check_global_keys is a deadline-bounded poll: whatever the remote job yields,
\* the call ends, by returning or, when no ready result comes within the bounded
\* number of submit/poll rounds, by failing.
C14_PollTerminates ==
    <>(pc = "checked" \/ pc = "check_failed")


-----------------------------------------------------------------------------
(* masks.mask_to_bytes with masks.get_mask_from_url: the mask of a url is  *)
(* requested again after every failed attempt.                             *)

\* max_retries of get_mask_from_url, the default of line 9 (line 40 passes none)
max_retries == 5

\* the arguments of mask_to_bytes
MaskMethods == {"url", "array", "file"}
MaskOutputs == {"array", "png", "jpg"}
MaskColors == <<PyNum(255), PyList(<<255, 255, 255>>), PyList(<<255, 255>>)>>
\* an array argument, by the length of its shape
MaskArray(dims) == [arr |-> "pixels", shape |-> dims]
MaskInputs == <<PyStr(<<"u">>), MaskArray(1), MaskArray(2), MaskArray(3)>>
\* line 14: the downloaded image as an array, cut to three columns
Downloaded == MaskArray(3)

\* lines 48-53: np_color, or the ValueError of an unusable color
NpColor(color) ==
    IF "num" \in DOMAIN color THEN Return(<<color.num, color.num, color.num>>)
    ELSE IF Len(color.list) = 3 THEN Return(color.list)
    ELSE Raise("ValueError", "The specified color of your segmentation mask must either be a number or an RGB code")

\* lines 58-72: what the serialization of the label of a mask yields; without an
\* array (np_mask is None) the labelbox SDK decides, by rejecting the mask or by
\* serializing a mask without data
MaskPng(mask, np_color) ==
    IF mask = None
    THEN {Raise("ValueError", "MaskData without arr"), Return([png |-> None, color |-> np_color])}
    ELSE {Return([png |-> mask, color |-> np_color])}

\* lines 48-72, once np_mask is there
FinishedMask(mask, color, output) ==
    IF Raised(NpColor(color)) THEN {NpColor(color)}
    ELSE IF output = "array" THEN {Return(mask)}
    ELSE MaskPng(mask, NpColor(color).ret)

\* mask_to_bytes is called with a url or an array
MaskInit ==
    /\ PureIdle
    /\ NotMaskIdle
    /\ bytes_method \in MaskMethods
    /\ bytes_output \in MaskOutputs
    /\ \E i \in 1..Len(MaskInputs) :
          /\ bytes_input = MaskInputs[i]
          /\ (bytes_method = "url") => "str" \in DOMAIN bytes_input
          /\ (bytes_method = "array") => "arr" \in DOMAIN bytes_input
    /\ \E c \in 1..Len(MaskColors) : bytes_color = MaskColors[c]
    /\ attempt_n = 0
    /\ np_mask = None
    /\ bytes_result = None
    /\ pc = "mask_to_bytes"

\* lines 31-47: the checks of method and output, and np_mask of an array argument
CheckMaskArguments ==
    /\ pc = "mask_to_bytes"
    /\ IF bytes_method \notin {"url", "array"} \/ bytes_output \notin {"array", "png"}
       THEN /\ bytes_result' = Raise("ValueError", "Downloading bytes requires a url or an array, and a png or an array")
            /\ pc' = "mask_done"
            /\ UNCHANGED np_mask
       ELSE IF bytes_method = "url"
       THEN /\ pc' = "get_mask_from_url"
            /\ UNCHANGED <<np_mask, bytes_result>>
       ELSE IF bytes_input.shape = 3
       THEN /\ np_mask' = Return(bytes_input)
            /\ pc' = "np_mask"
            /\ UNCHANGED bytes_result
       ELSE IF bytes_input.shape = 2
       THEN /\ np_mask' = Return(PyList(<<bytes_input, bytes_input, bytes_input>>))
            /\ pc' = "np_mask"
            /\ UNCHANGED bytes_result
       ELSE /\ bytes_result' = Raise("ValueError", "Input segmentation mask arrays must either be 2D or 3D")
            /\ pc' = "mask_done"
            /\ UNCHANGED np_mask
    /\ UNCHANGED <<pureVars, notMaskVars, bytes_input, bytes_method, bytes_color,
                   bytes_output, attempt_n>>

\* lines 13-16: one attempt; the request or the decoding of its content either
\* yields the array, or raises, and the except clause calls again with n + 1
RequestMask ==
    /\ pc = "get_mask_from_url"
    /\ attempt_n < max_retries
    /\ \E ok \in BOOLEAN :
          IF ok
          THEN /\ np_mask' = Return(Downloaded)
               /\ pc' = "np_mask"
               /\ UNCHANGED attempt_n
          ELSE /\ attempt_n' = attempt_n + 1
               /\ UNCHANGED <<np_mask, pc>>
    /\ UNCHANGED <<pureVars, notMaskVars, bytes_input, bytes_method, bytes_color,
                   bytes_output, bytes_result>>

\* lines 11-12: n >= max_retries, the bare return hands None back through every
\* pending call
GiveUpMask ==
    /\ pc = "get_mask_from_url"
    /\ attempt_n >= max_retries
    /\ np_mask' = Return(None)
    /\ pc' = "np_mask"
    /\ UNCHANGED <<pureVars, notMaskVars, bytes_input, bytes_method, bytes_color,
                   bytes_output, attempt_n, bytes_result>>

\* lines 48-72
ReturnMask ==
    /\ pc = "np_mask"
    /\ bytes_result' \in FinishedMask(np_mask.ret, bytes_color, bytes_output)
    /\ pc' = "mask_done"
    /\ UNCHANGED <<pureVars, notMaskVars, bytes_input, bytes_method, bytes_color,
                   bytes_output, attempt_n, np_mask>>

MaskNext ==
    \/ CheckMaskArguments
    \/ RequestMask
    \/ GiveUpMask
    \/ ReturnMask

SpecMask == MaskInit /\ [][MaskNext]_vars

\* every attempt to download the mask has failed
AllAttemptsFailed == pc \in {"np_mask", "mask_done"} /\ attempt_n = max_retries

\* C15: when every attempt to download a mask fails, get_mask_from_url ends after
\* its bounded number of retries with an error for its caller: it does not return
\* (a None mask), and mask_to_bytes does not return a mask made of it.
C15_RetriesEndInError ==
    AllAttemptsFailed
    => /\ Raised(np_mask)
       /\ (pc = "mask_done") => Raised(bytes_result)


-----------------------------------------------------------------------------
(* connector.validate_columns: the identity columns and the typed columns  *)
(* of a table, found by their names.                                       *)

\* most columns of a table
MaxColumns == 2

UpperCase == <<"A", "B", "C", "D", "E", "F", "G", "H", "I", "J", "K", "L", "M",
               "N", "O", "P", "Q", "R", "S", "T", "U", "V", "W", "X", "Y", "Z">>
LowerCase == <<"a", "b", "c", "d", "e", "f", "g", "h", "i", "j", "k", "l", "m",
               "n", "o", "p", "q", "r", "s", "t", "u", "v", "w", "x", "y", "z">>
\* the character of `to` at the place c has in `from`, c itself when it has none
Recase(c, from, to) ==
    IF \E k \in 1..Len(from) : from[k] = c
    THEN to[CHOOSE k \in 1..Len(from) : from[k] = c]
    ELSE c
\* str.lower() and str.upper()
lower(s) == [i \in DOMAIN s |-> Recase(s[i], UpperCase, LowerCase)]
upper(s) == [i \in DOMAIN s |-> Recase(s[i], LowerCase, UpperCase)]

\* line 49
cols == <<<<"r", "o", "w", "_", "d", "a", "t", "a">>,
          <<"g", "l", "o", "b", "a", "l", "_", "k", "e", "y">>,
          <<"e", "x", "t", "e", "r", "n", "a", "l", "_", "i", "d">>,
          <<"d", "a", "t", "a", "s", "e", "t", "_", "i", "d">>,
          <<"m", "o", "d", "e", "l", "_", "i", "d">>,
          <<"m", "o", "d", "e", "l", "_", "r", "u", "n", "_", "i", "d">>>>
\* f"{c}_col" for the names of cols, and for the names the table may hold beside them
ColKey(c) ==
    CASE c = <<"r", "o", "w", "_", "d", "a", "t", "a">> -> "row_data_col"
      [] c = <<"g", "l", "o", "b", "a", "l", "_", "k", "e", "y">> -> "global_key_col"
      [] c = <<"e", "x", "t", "e", "r", "n", "a", "l", "_", "i", "d">> -> "external_id_col"
      [] c = <<"d", "a", "t", "a", "s", "e", "t", "_", "i", "d">> -> "dataset_id_col"
      [] c = <<"p", "r", "o", "j", "e", "c", "t", "_", "i", "d">> -> "project_id_col"
      [] c = <<"m", "o", "d", "e", "l", "_", "i", "d">> -> "model_id_col"
      [] c = <<"m", "o", "d", "e", "l", "_", "r", "u", "n", "_", "i", "d">> -> "model_run_id_col"
\* line 51
indexes == <<"metadata_index", "attachment_index", "annotation_index", "prediction_index">>
\* lines 54-56
accepted_metadata_types == <<<<"e", "n", "u", "m">>,
                             <<"s", "t", "r", "i", "n", "g">>,
                             <<"d", "a", "t", "e", "t", "i", "m", "e">>,
                             <<"n", "u", "m", "b", "e", "r">>>>
accepted_attachment_types == <<<<"I", "M", "A", "G", "E">>,
                               <<"V", "I", "D", "E", "O">>,
                               <<"R", "A", "W", "_", "T", "E", "X", "T">>,
                               <<"H", "T", "M", "L">>,
                               <<"T", "E", "X", "T", "_", "U", "R", "L">>>>
accepted_annotation_types == <<<<"b", "b", "o", "x">>,
                               <<"p", "o", "l", "y", "g", "o", "n">>,
                               <<"p", "o", "i", "n", "t">>,
                               <<"m", "a", "s", "k">>,
                               <<"l", "i", "n", "e">>,
                               <<"n", "a", "m", "e", "d", "-", "e", "n", "t", "i", "t", "y">>,
                               <<"r", "a", "d", "i", "o">>,
                               <<"c", "h", "e", "c", "k", "l", "i", "s", "t">>,
                               <<"t", "e", "x", "t">>>>

\* lines 50-52: every f"{c}_col" is "", every index is {}
DefaultX ==
    [k \in {ColKey(c) : c \in Range(cols)} \cup Range(indexes) |->
        IF k \in Range(indexes) THEN EmptyDict ELSE <<>>]

\* x[index][key] = value
IndexSet(x, index, key, value) == [x EXCEPT ![index] = DictSet(x[index], key, value)]

\* lines 61-95, for one column: x with the column recorded, or the exception raised
ValidateColumn(x, column_name, div) ==
    Only({ IF Len(segs) = 3
           THEN CASE lower(segs[1]) = <<"m", "e", "t", "a", "d", "a", "t", "a">> ->
                       IF lower(segs[2]) \notin Range(accepted_metadata_types)
                       THEN Raise("ValueError", column_name)
                       ELSE Return(IndexSet(x, "metadata_index", segs[3], lower(segs[2])))
                  [] lower(segs[1]) = <<"a", "t", "t", "a", "c", "h", "m", "e", "n", "t">> ->
                       IF upper(segs[2]) \notin Range(accepted_attachment_types)
                       THEN Raise("ValueError", column_name)
                       ELSE Return(IndexSet(x, "attachment_index", column_name, upper(segs[2])))
                  [] lower(segs[1]) = <<"a", "n", "n", "o", "t", "a", "t", "i", "o", "n">> ->
                       IF lower(segs[2]) \notin Range(accepted_annotation_types)
                       THEN Raise("ValueError", column_name)
                       ELSE Return(IndexSet(x, "annotation_index", column_name, lower(segs[3])))
                  \* line 85 reads `column_type`, a name that is never bound
                  [] lower(segs[1]) = <<"p", "r", "e", "d", "i", "c", "t", "i", "o", "n">> ->
                       Raise("NameError", <<"c", "o", "l", "u", "m", "n", "_", "t", "y", "p", "e">>)
                  [] OTHER -> Return(x)
           ELSE IF column_name \in Range(cols)
           THEN Return([x EXCEPT ![ColKey(column_name)] = column_name])
           ELSE Return(x)
         : segs \in {Split(column_name, div)} })

\* lines 60-95: the loop over the column names, left at the first exception
RECURSIVE ValidateLoop(_, _, _, _)
ValidateLoop(x, names, i, div) ==
    IF i > Len(names) THEN Return(x)
    ELSE Only({ IF Raised(step) THEN step ELSE ValidateLoop(step.ret, names, i + 1, div)
              : step \in {ValidateColumn(x, names[i], div)} })

\* lines 97-105: the checks of row_data_col, and the defaults of global_key_col
\* and external_id_col
Defaulted(x, creating) ==
    IF creating /\ x.row_data_col = <<>>
    THEN Raise("ValueError", <<"r", "o", "w", "_", "d", "a", "t", "a">>)
    ELSE IF x.row_data_col = <<>> /\ x.global_key_col = <<>>
    THEN Raise("ValueError", <<"g", "l", "o", "b", "a", "l", "_", "k", "e", "y">>)
    ELSE Only({ [gk EXCEPT !.external_id_col =
                    IF gk.external_id_col # <<>> THEN gk.external_id_col ELSE gk.global_key_col]
              : gk \in {[x EXCEPT !.global_key_col =
                           IF x.global_key_col # <<>> THEN x.global_key_col ELSE x.row_data_col]} })

\* lines 48-105
validate_columns(names, div, creating) ==
    Only({ IF Raised(looped) THEN looped
           ELSE Only({ IF "exc" \in DOMAIN d THEN d ELSE Return(d)
                     : d \in {Defaulted(looped.ret, creating)} })
         : looped \in {ValidateLoop(DefaultX, names, 1, div)} })


\* the column names a table is made of: identity columns, typed columns with accepted
\* and with unknown type tokens, and columns of neither kind
ColumnPool == <<<<"r", "o", "w", "_", "d", "a", "t", "a">>, <<"g", "l", "o", "b", "a", "l", "_", "k", "e", "y">>, <<"e", "x", "t", "e", "r", "n", "a", "l", "_", "i", "d">>, <<"d", "a", "t", "a", "s", "e", "t", "_", "i", "d">>,
                <<"p", "r", "o", "j", "e", "c", "t", "_", "i", "d">>, <<"m", "o", "d", "e", "l", "_", "i", "d">>, <<"m", "o", "d", "e", "l", "_", "r", "u", "n", "_", "i", "d">>,
                <<"m", "e", "t", "a", "d", "a", "t", "a", "/", "/", "/", "e", "n", "u", "m", "/", "/", "/", "f">>,
                <<"m", "e", "t", "a", "d", "a", "t", "a", "/", "/", "/", "b", "l", "o", "b", "/", "/", "/", "f">>,
                <<"M", "e", "t", "a", "d", "a", "t", "a", "/", "/", "/", "E", "N", "U", "M", "/", "/", "/", "f">>,
                <<"a", "t", "t", "a", "c", "h", "m", "e", "n", "t", "/", "/", "/", "i", "m", "a", "g", "e", "/", "/", "/", "a">>,
                <<"a", "t", "t", "a", "c", "h", "m", "e", "n", "t", "/", "/", "/", "p", "d", "f", "/", "/", "/", "a">>,
                <<"a", "n", "n", "o", "t", "a", "t", "i", "o", "n", "/", "/", "/", "b", "b", "o", "x", "/", "/", "/", "C", "a", "r">>,
                <<"a", "n", "n", "o", "t", "a", "t", "i", "o", "n", "/", "/", "/", "b", "o", "x", "/", "/", "/", "C", "a", "r">>,
                <<"p", "r", "e", "d", "i", "c", "t", "i", "o", "n", "/", "/", "/", "b", "b", "o", "x", "/", "/", "/", "C", "a", "r">>,
                <<"p", "r", "e", "d", "i", "c", "t", "i", "o", "n", "/", "/", "/", "b", "o", "x", "/", "/", "/", "C", "a", "r">>,
                <<"o", "t", "h", "e", "r", "/", "/", "/", "b", "b", "o", "x", "/", "/", "/", "y">>,
                <<"a", "/", "/", "/", "b">>, <<"n", "o", "t", "e">>>>
\* the tables: at most MaxColumns distinct columns, in any order
Tables ==
    UNION { { [i \in 1..n |-> ColumnPool[t[i]]] :
                t \in { f \in [1..n -> 1..Len(ColumnPool)] : \A i, j \in 1..n : f[i] = f[j] => i = j } }
            : n \in 0..MaxColumns }
\* the metadata field names the service may know
lb_integration_source == <<"l", "b", "_", "i", "n", "t", "e", "g", "r", "a", "t", "i", "o", "n", "_", "s", "o", "u", "r", "c", "e">>
ServiceFieldNames == {<<"f">>, lb_integration_source}

\* validate_columns is called on a table
ConnectorInit ==
    /\ PureIdle
    /\ NotConnectorIdle
    /\ column_names \in Tables
    /\ creating_data_rows \in BOOLEAN
    /\ x_result = None
    /\ lb_metadata_names = None
    /\ created_schemas = None
    /\ pc = "validate_columns"

\* lines 48-105: the column names are read and checked
ValidateColumns ==
    /\ pc = "validate_columns"
    /\ x_result' = validate_columns(column_names, divider, creating_data_rows)
    /\ pc' = IF Raised(x_result') THEN "validated" ELSE "sync_metadata"
    /\ UNCHANGED <<pureVars, notConnectorVars, column_names, creating_data_rows,
                   lb_metadata_names, created_schemas>>

\* lines 107-123: the metadata fields the service does not know are created,
\* lb_integration_source too, and x is returned
SyncMetadataFields ==
    /\ pc = "sync_metadata"
    /\ lb_metadata_names' \in SUBSET ServiceFieldNames
    /\ created_schemas' = (DOMAIN x_result.ret.metadata_index \cup {lb_integration_source})
                              \ lb_metadata_names'
    /\ pc' = "validated"
    /\ UNCHANGED <<pureVars, notConnectorVars, column_names, creating_data_rows, x_result>>

ConnectorNext ==
    \/ ValidateColumns
    \/ SyncMetadataFields

SpecConnector == ConnectorInit /\ [][ConnectorNext]_vars

\* the four kinds of typed columns
TypedKinds == {<<"m", "e", "t", "a", "d", "a", "t", "a">>, <<"a", "t", "t", "a", "c", "h", "m", "e", "n", "t">>, <<"a", "n", "n", "o", "t", "a", "t", "i", "o", "n">>, <<"p", "r", "e", "d", "i", "c", "t", "i", "o", "n">>}
\* the accepted type tokens of a kind of typed column
AcceptedTokens(kind) ==
    CASE kind = <<"m", "e", "t", "a", "d", "a", "t", "a">> -> Range(accepted_metadata_types)
      [] kind = <<"a", "t", "t", "a", "c", "h", "m", "e", "n", "t">> -> Range(accepted_attachment_types)
      [] OTHER -> Range(accepted_annotation_types)
\* the index that belongs to a kind of typed column
IndexOf(kind) ==
    CASE kind = <<"m", "e", "t", "a", "d", "a", "t", "a">> -> "metadata_index"
      [] kind = <<"a", "t", "t", "a", "c", "h", "m", "e", "n", "t">> -> "attachment_index"
      [] kind = <<"a", "n", "n", "o", "t", "a", "t", "i", "o", "n">> -> "annotation_index"
      [] kind = <<"p", "r", "e", "d", "i", "c", "t", "i", "o", "n">> -> "prediction_index"
\* a column name of three segments whose first is one of the four kinds
Typed(c) ==
    /\ Len(Split(c, DIV)) = 3
    /\ lower(Split(c, DIV)[1]) \in TypedKinds
\* a typed column whose type token is outside the accepted set, in either case
Offending(c) ==
    /\ Typed(c)
    /\ lower(Split(c, DIV)[2]) \notin AcceptedTokens(lower(Split(c, DIV)[1]))
    /\ upper(Split(c, DIV)[2]) \notin AcceptedTokens(lower(Split(c, DIV)[1]))
\* a typed column is recorded in the index of its kind, under its name or its field name
Recorded(c, x) ==
    {c, Split(c, DIV)[3]} \cap DOMAIN x[IndexOf(lower(Split(c, DIV)[1]))] # {}

\* C16: validate_columns raises a ValueError that names the offending column exactly
\* when the table has a typed column with a type token outside the accepted set;
\* the typed columns with accepted tokens raise nothing, and are recorded in the
\* index of their kind.
C16_TypeTokens ==
    pc \in {"sync_metadata", "validated"}
    => /\ (\E i \in DOMAIN column_names : Offending(column_names[i]))
          <=> (/\ Raised(x_result)
               /\ x_result.exc = "ValueError"
               /\ \E i \in DOMAIN column_names :
                     Offending(column_names[i]) /\ x_result.arg = column_names[i])
       /\ Raised(x_result) => x_result.exc = "ValueError"
       /\ Returned(x_result) =>
             \A i \in DOMAIN column_names :
                Typed(column_names[i]) => Recorded(column_names[i], x_result.ret)

\* the identity columns
IdentityColumns == Range(cols) \cup {<<"p", "r", "o", "j", "e", "c", "t", "_", "i", "d">>}
\* the entry of an identity column: its name when the table has it, "" otherwise
OwnColumn(c) == IF c \in Range(column_names) THEN c ELSE <<>>
\* the same with the defaults of global_key_col and external_id_col
ExpectedColumn(c) ==
    CASE c = <<"g", "l", "o", "b", "a", "l", "_", "k", "e", "y">> ->
            IF OwnColumn(c) # <<>> THEN OwnColumn(c) ELSE OwnColumn(<<"r", "o", "w", "_", "d", "a", "t", "a">>)
      [] c = <<"e", "x", "t", "e", "r", "n", "a", "l", "_", "i", "d">> ->
            IF OwnColumn(c) # <<>> THEN OwnColumn(c)
            ELSE IF OwnColumn(<<"g", "l", "o", "b", "a", "l", "_", "k", "e", "y">>) # <<>>
            THEN OwnColumn(<<"g", "l", "o", "b", "a", "l", "_", "k", "e", "y">>)
            ELSE OwnColumn(<<"r", "o", "w", "_", "d", "a", "t", "a">>)
      [] OTHER -> OwnColumn(c)

\* C17: the dictionary validate_columns returns has, for each of row_data, global_key,
\* external_id, dataset_id, project_id, model_id and model_run_id, an entry <name>_col
\* with the column name when the table has the column and "" otherwise; global_key_col
\* defaults to row_data_col and external_id_col to global_key_col.
C17_IdentityColumns ==
    (pc = "validated" /\ Returned(x_result))
    => \A c \in IdentityColumns :
          /\ ColKey(c) \in DOMAIN x_result.ret
          /\ x_result.ret[ColKey(c)] = ExpectedColumn(c)


-----------------------------------------------------------------------------
(* Two calls of get_ontology_schema_to_name_path, run one after the other  *)
(* or interleaved.  Ontologies and dictionaries are objects in memory: a   *)
(* call holds the address of its argument and of the dictionary it fills,  *)
(* and feature_dict.update writes into the object at that address.         *)

\* the two calls
Builds == {1, 2}
\* the addresses of the two ontologies
OntologyAddresses == {1, 2}

\* the ontologies the calls are made on
BuildOntologies ==
    << Normalized(<< Tool("bbox", Car,
                          << Classification("radio", Damaged, <<Option(Yes), Option(No)>>) >>) >>,
                  <<>>),
       Normalized(<<>>,
                  << Classification("text", Comment, <<>>),
                     Classification("radio", Weather, <<Option(Sunny), Option(Rainy)>>) >>),
       Normalized(<< Tool("point", Spot, <<>>) >>,
                  << Classification("checklist", Color, <<Option(Red), Option(Blue)>>) >>) >>

\* one dictionary made once and handed to every call, as a default argument is
NewDict_Shared(h) == IF Len(h) < 3 THEN Len(h) + 1 ELSE 3

\* the address of a new object `{}` (lines 68 and 70): the next free one
NewDict(h) == Len(h) + 1

\* the memory once the object at address a exists, empty when it is new
Allocated(h, a) == IF a > Len(h) THEN Append(h, EmptyDict) ELSE h

\* a call of map_layer on a non-empty node_layer: the layer, the position of
\* the loop of line 31, and parent_name_path
Frame(node_layer, parent_name_path) ==
    [layer |-> node_layer, i |-> 1, parent |-> parent_name_path]

\* line 60: the calls of map_layer whose loop is over return
RECURSIVE Unwind(_)
Unwind(stack) ==
    IF stack = <<>> THEN <<>>
    ELSE IF stack[1].i > Len(stack[1].layer) THEN Unwind(Tail(stack))
    ELSE stack

\* lines 67-73: map_layer on the tools, then on the classifications, when there are any
FirstFrames(ontology_normalized) ==
    (IF ontology_normalized.tools # <<>>
     THEN <<Frame(ontology_normalized.tools, <<>>)>> ELSE <<>>)
    \o (IF ontology_normalized.classifications # <<>>
        THEN <<Frame(ontology_normalized.classifications, <<>>)>> ELSE <<>>)

\* two calls are about to be made, on ontologies that may be one object
BuildsInit ==
    /\ PureIdle
    /\ NotBuildsIdle
    /\ pc = "builds"
    /\ \E i, j \in 1..Len(BuildOntologies) : heap = <<BuildOntologies[i], BuildOntologies[j]>>
    /\ heap_at_call = heap
    /\ build_ontology \in [Builds -> OntologyAddresses]
    /\ build_pc = [b \in Builds |-> "call"]
    /\ build_stack = [b \in Builds |-> <<>>]
    /\ build_dict = [b \in Builds |-> 0]
    /\ build_encoded = [b \in Builds |-> 0]
    /\ build_result = [b \in Builds |-> None]

\* lines 61-73, up to the first node: the dictionary of the call is made
CallBuild(b) ==
    /\ build_pc[b] = "call"
    /\ build_dict' = [build_dict EXCEPT ![b] = NewDict(heap)]
    /\ heap' = Allocated(heap, build_dict'[b])
    /\ build_stack' = [build_stack EXCEPT ![b] = FirstFrames(heap[build_ontology[b]])]
    /\ build_pc' = [build_pc EXCEPT ![b] = "map_layer"]
    /\ UNCHANGED <<pc, pureVars, notBuildsVars, heap_at_call, build_ontology,
                   build_encoded, build_result>>

\* lines 32-59, for the next node of the call: the counter goes up, the entry of the
\* node is written into feature_dict, and map_layer is called on its next layer
MapNode(b) ==
    /\ build_pc[b] = "map_layer"
    /\ build_stack[b] # <<>>
    /\ LET frame == build_stack[b][1]
           entry == NodeEntry(frame.layer[frame.i], frame.parent, divider, TRUE, TRUE,
                              build_encoded[b] + 1)
           rest  == <<[frame EXCEPT !.i = @ + 1]>> \o Tail(build_stack[b])
       IN  /\ build_encoded' = [build_encoded EXCEPT ![b] = @ + 1]
           /\ heap' = [heap EXCEPT ![build_dict[b]] = DictSet(@, entry.key, entry.value)]
           /\ build_stack' = [build_stack EXCEPT ![b] =
                                 IF entry.next # <<>>
                                 THEN <<Frame(entry.next, entry.name_path)>> \o rest
                                 ELSE Unwind(rest)]
    /\ UNCHANGED <<pc, pureVars, notBuildsVars, heap_at_call, build_ontology, build_pc,
                   build_dict, build_result>>

\* line 74
ReturnBuild(b) ==
    /\ build_pc[b] = "map_layer"
    /\ build_stack[b] = <<>>
    /\ build_result' = [build_result EXCEPT ![b] = Return(build_dict[b])]
    /\ build_pc' = [build_pc EXCEPT ![b] = "done"]
    /\ UNCHANGED <<pc, pureVars, notBuildsVars, heap, heap_at_call, build_ontology,
                   build_stack, build_dict, build_encoded>>

BuildsNext ==
    \E b \in Builds :
        \/ CallBuild(b)
        \/ MapNode(b)
        \/ ReturnBuild(b)

SpecBuilds == BuildsInit /\ [][BuildsNext]_vars

\* the index of the ontology a call was made on, built by a call on its own
IndexAlone(b) ==
    get_ontology_schema_to_name_path(
        [pytype |-> "dict", normalized |-> heap_at_call[build_ontology[b]]],
        divider, TRUE, TRUE).ret

-----------------------------------------------------------------------------
(* converters/coco.py, export_labels: every object annotation of the       *)
(* export is converted by a task of a thread pool, and the results are     *)
(* collected as the tasks complete.                                        *)

\* most data rows of an export
MaxExportRows == 2
\* most object annotations of a data row
MaxObjects == 2

\* the k-th object annotation of the r-th data row; the second of a row is a line
ObjectAnnotation(r, k) == [feature_id |-> <<r, k>>, line |-> IF k = 2 THEN 2 ELSE 0]
\* an exported data row with n object annotations, the labels of the row taken together
ExportedRow(r, n) == [id |-> r, objects |-> [k \in 1..n |-> ObjectAnnotation(r, k)]]
\* the exports: the object annotations of each data row, by their number
Exports ==
    UNION { { [r \in 1..rows |-> ExportedRow(r, counts[r])] :
                counts \in [1..rows -> 0..MaxObjects] }
            : rows \in 0..MaxExportRows }

\* lines 138-169: (coco_annotation, max_line_keypoints) of an object annotation
to_coco_annotation_converter(data_row_id, annotation) ==
    <<[image_id |-> data_row_id, id |-> annotation.feature_id], annotation.line>>

\* a task of the executor: the arguments of line 266
Task(datarow_id, annotation) == [datarow_id |-> datarow_id, annotation |-> annotation]

\* export_labels has the export; lines 242-245
CocoInit ==
    /\ PureIdle
    /\ NotCocoIdle
    /\ exported_datarows \in Exports
    /\ item_cursor = 1
    /\ futures = <<>>
    /\ finished = {}
    /\ yielded = {}
    /\ global_max_keypoints = 0
    /\ annotations = <<>>
    /\ pc = IF exported_datarows = <<>> THEN "converted" ELSE "submit"

\* lines 261-266: one task is submitted for every object annotation of the data row,
\* and line 267 calls as_completed on futures
SubmitTasks ==
    /\ pc = "submit"
    /\ LET item == exported_datarows[item_cursor]
       IN  futures' = futures \o [k \in 1..Len(item.objects) |-> Task(item.id, item.objects[k])]
    /\ yielded' = {}
    /\ pc' = "as_completed"
    /\ UNCHANGED <<pureVars, notCocoVars, exported_datarows, item_cursor, finished,
                   global_max_keypoints, annotations>>

\* a worker of the pool finishes a task, at any time after its submission
FinishTask ==
    /\ pc \in {"submit", "as_completed"}
    /\ \E i \in 1..Len(futures) :
          /\ i \notin finished
          /\ finished' = finished \cup {i}
    /\ UNCHANGED <<pureVars, notCocoVars, exported_datarows, item_cursor, futures, yielded,
                   global_max_keypoints, annotations, pc>>

\* lines 267-271: as_completed hands out a finished future of the list it was given,
\* each once, and its result is collected
CollectResult ==
    /\ pc = "as_completed"
    /\ \E i \in (1..Len(futures)) \ yielded :
          /\ i \in finished
          /\ LET result == to_coco_annotation_converter(futures[i].datarow_id,
                                                        futures[i].annotation)
             IN  /\ global_max_keypoints' =
                        IF result[2] > global_max_keypoints THEN result[2]
                        ELSE global_max_keypoints
                 /\ annotations' = Append(annotations, result[1])
          /\ yielded' = yielded \cup {i}
    /\ UNCHANGED <<pureVars, notCocoVars, exported_datarows, item_cursor, futures, finished,
                   pc>>

\* as_completed is exhausted: the loop of line 261 goes to the next data row, or ends
NextItem ==
    /\ pc = "as_completed"
    /\ yielded = 1..Len(futures)
    /\ item_cursor' = item_cursor + 1
    /\ pc' = IF item_cursor' > Len(exported_datarows) THEN "converted" ELSE "submit"
    /\ UNCHANGED <<pureVars, notCocoVars, exported_datarows, futures, finished, yielded,
                   global_max_keypoints, annotations>>

CocoNext ==
    \/ SubmitTasks
    \/ FinishTask
    \/ CollectResult
    \/ NextItem

SpecCoco == CocoInit /\ [][CocoNext]_vars

\* the object annotations of the export
ExportedObjects ==
    UNION { { <<exported_datarows[r].id, exported_datarows[r].objects[k]>> :
                k \in 1..Len(exported_datarows[r].objects) }
            : r \in 1..Len(exported_datarows) }

\* C19: export_labels submits one task for every object annotation of the export, and
\* `annotations` holds the result of every task exactly once, whatever the number of
\* data rows and whatever the order the tasks complete in.
C19_EachResultOnce ==
    pc = "converted"
    => /\ Len(futures) = Cardinality(ExportedObjects)
       /\ Len(annotations) = Cardinality(ExportedObjects)
       /\ \A o \in ExportedObjects :
             Cardinality({i \in 1..Len(annotations) :
                             annotations[i] = to_coco_annotation_converter(o[1], o[2])[1]}) = 1


-----------------------------------------------------------------------------
(* dataset.get_or_create_dataset: the dataset of a name is looked up at    *)
(* the service and created when the lookup yields none.                    *)

\* most calls of get_or_create_dataset
MaxCalls == 3

\* the names a dataset is asked for by
DatasetNames == {"n", "m"}
\* a dataset at the service, made by this function or by someone else
Dataset(name, maker) == [name |-> name, made_by |-> maker]
\* the datasets the service holds before the first call
ExistingDatasets == {<<>>, <<Dataset("n", "other")>>}

\* line 14: next(client.get_datasets(where=name)) yields the first dataset of the name,
\* raises StopIteration when there is none, or raises as the request fails
Lookups(datasets, name) ==
    LET matching == {i \in 1..Len(datasets) : datasets[i].name = name}
    IN  { IF matching = {} THEN Raise("StopIteration", <<>>)
          ELSE Return([uid |-> Min(matching), name |-> name]),
          Raise("ConnectionError", <<>>) }

\* get_or_create_dataset is called for the first time
DatasetInit ==
    /\ PureIdle
    /\ NotDatasetIdle
    /\ lb_datasets \in ExistingDatasets
    /\ dataset_name \in DatasetNames
    /\ lookup = None
    /\ dataset_result = None
    /\ calls_made = 1
    /\ pc = "get_datasets"

\* line 14
GetDatasets ==
    /\ pc = "get_datasets"
    /\ lookup' \in Lookups(lb_datasets, dataset_name)
    /\ pc' = IF Raised(lookup') THEN "create_dataset" ELSE "return_dataset"
    /\ UNCHANGED <<pureVars, notDatasetVars, lb_datasets, dataset_name, dataset_result,
                   calls_made>>

\* lines 17-28: whatever line 14 raised, a dataset of the name is created
CreateDataset ==
    /\ pc = "create_dataset"
    /\ lb_datasets' = Append(lb_datasets, Dataset(dataset_name, "get_or_create_dataset"))
    /\ dataset_result' = Return([uid |-> Len(lb_datasets'), name |-> dataset_name])
    /\ pc' = "returned"
    /\ UNCHANGED <<pureVars, notDatasetVars, dataset_name, lookup, calls_made>>

\* line 31, with the dataset of line 14
ReturnDataset ==
    /\ pc = "return_dataset"
    /\ dataset_result' = lookup
    /\ pc' = "returned"
    /\ UNCHANGED <<pureVars, notDatasetVars, lb_datasets, dataset_name, lookup, calls_made>>

\* the next call, for the same name or for another
CallAgain ==
    /\ pc = "returned"
    /\ calls_made < MaxCalls
    /\ calls_made' = calls_made + 1
    /\ dataset_name' \in DatasetNames
    /\ lookup' = None
    /\ dataset_result' = None
    /\ pc' = "get_datasets"
    /\ UNCHANGED <<pureVars, notDatasetVars, lb_datasets>>

DatasetNext ==
    \/ GetDatasets
    \/ CreateDataset
    \/ ReturnDataset
    \/ CallAgain

SpecDataset == DatasetInit /\ [][DatasetNext]_vars

\* C20: get_or_create_dataset creates a dataset only when the service has none of the
\* name, so that, over any sequence of calls, at most one dataset of a name is made by
\* it, also when a lookup raises a transient error.
C20_AtMostOneCreated ==
    \A i \in 1..Len(lb_datasets) :
        lb_datasets[i].made_by = "get_or_create_dataset"
        => \A j \in 1..(i - 1) : lb_datasets[j].name # lb_datasets[i].name


-----------------------------------------------------------------------------
(* uploader.batch_create_data_rows, lines 105-134: the global keys of the  *)
(* upload are vetted batch by batch against the keys in use; a key in use  *)
(* is dropped from upload_dict, or renamed with a counter as its suffix    *)
(* and vetted again.                                                       *)

\* most data rows of a vetted upload
MaxVetRows == 2
\* most keys in a row the platform holds for one original key: the key itself, the
\* key with the suffix 1, the key with the suffix 2, and so on
MaxRenames == 10

DigitChars == <<"0", "1", "2", "3", "4", "5", "6", "7", "8", "9">>
\* str(n) of a natural number
RECURSIVE IntStr(_)
IntStr(n) ==
    IF n < 10 THEN <<DigitChars[n + 1]>>
    ELSE IntStr(n \div 10) \o <<DigitChars[(n % 10) + 1]>>

\* a dict in insertion order is a list of entries [key, value]
OdKeys(d) == [k \in 1..Len(d) |-> d[k].key]
OdHas(d, key) == \E k \in 1..Len(d) : d[k].key = key
OdGet(d, key) == d[CHOOSE k \in 1..Len(d) : d[k].key = key].value
\* del d[key], kept as it is when the key is missing
OdDel_Kept(d, key) == d

\* del d[key]
OdDel(d, key) == SelectSeq(d, LAMBDA e : e.key # key)
\* d[key] = value: in place for a key of the dict, at the end for a new one
OdSet(d, key, value) ==
    IF OdHas(d, key)
    THEN [k \in 1..Len(d) |-> IF d[k].key = key THEN [key |-> key, value |-> value] ELSE d[k]]
    ELSE Append(d, [key |-> key, value |-> value])

\* the global keys of the uploads
VetKeys == << <<"k", "1">>, <<"k", "2">>, <<"k", "3">>, <<"k", "4">> >>
\* an entry of upload_dict: the data row is known by its row_data, and renamed_in
\* records the renaming round that wrote its global key last (0: none)
Upload(gk) ==
    [key |-> gk,
     value |-> [data_row |-> [row_data |-> gk, global_key |-> gk],
                dataset_id |-> "ds1", renamed_in |-> 0]]
\* the upload dictionaries of n data rows
VetDict(n) == [k \in 1..n |-> Upload(VetKeys[k])]

\* the numbers of keys in a row that the platform holds for an original key
HeldInARow == {0, 1, 2, MaxRenames}
\* the key gk is in use at a platform that holds held[k] keys in a row for VetKeys[k]
InUse(gk, held, div) ==
    \E k \in DOMAIN held :
        \/ held[k] >= 1 /\ gk = VetKeys[k]
        \/ \E m \in 1..(held[k] - 1) : gk = VetKeys[k] \o div \o IntStr(m)

\* lines 111 and 133: global_keys[i:] or global_keys[i:i+batch_size]
KeyBatch(keys, i, size) ==
    SubSeq(keys, i + 1, IF i + size >= Len(keys) THEN Len(keys) ELSE i + size)

\* the elements of s at the positions of I, in order
RECURSIVE Pick(_, _, _)
Pick(s, I, k) ==
    IF k > Len(s) THEN <<>>
    ELSE (IF k \in I THEN <<s[k]>> ELSE <<>>) \o Pick(s, I, k + 1)

\* lines 118-119
RECURSIVE DropExisting(_, _)
DropExisting(dict, existing) ==
    IF existing = <<>> THEN dict
    ELSE DropExisting(OdDel(dict, existing[1]), Tail(existing))

\* line 126: the key without its suffix
GkRoot(egk, div, counter) ==
    IF counter = 1 THEN egk ELSE DropLast(egk, Len(div) + Len(IntStr(counter)))

\* lines 125-131: every key in use makes way for the key with the new suffix
RECURSIVE RenameExisting(_, _, _, _)
RenameExisting(dict, existing, div, counter) ==
    IF existing = <<>> THEN dict
    ELSE Only({ RenameExisting(
                    OdSet(OdDel(dict, existing[1]), new_gk,
                          [OdGet(dict, existing[1]) EXCEPT
                              !.data_row.global_key = new_gk, !.renamed_in = counter]),
                    Tail(existing), div, counter)
              : new_gk \in {GkRoot(existing[1], div, counter) \o div \o IntStr(counter)} })

\* batch_create_data_rows is called; lines 105-111 for the first batch
VetInit ==
    /\ PureIdle
    /\ NotVettingIdle
    /\ \E n \in 0..MaxVetRows : vet_dict = VetDict(n)
    /\ given_dict = vet_dict
    /\ keys_in_use \in [1..Len(vet_dict) -> HeldInARow]
    /\ vet_skip \in BOOLEAN
    /\ vet_batch_size \in 1..MaxVetRows
    /\ global_keys = OdKeys(vet_dict)
    /\ vet_range = Len(global_keys)
    /\ vet_i = 0
    /\ gks = KeyBatch(global_keys, 0, vet_batch_size)
    /\ existing_gks = <<>>
    /\ loop_counter = 0
    /\ reported = {}
    /\ submitted = <<>>
    /\ pc = IF vet_dict = <<>> THEN "vetted" ELSE "check_global_keys"

\* lines 112 and 134: check_global_keys answers with the keys of the batch that the
\* platform holds, in the order of the batch
CheckKeys ==
    /\ pc = "check_global_keys"
    /\ LET I == {k \in 1..Len(gks) : InUse(gks[k], keys_in_use, divider)}
       IN  /\ existing_gks' = Pick(gks, I, 1)
           /\ reported' = reported \cup {gks[k] : k \in I}
    /\ pc' = "vet"
    /\ UNCHANGED <<pureVars, notVettingVars, vet_dict, given_dict, keys_in_use, vet_skip, vet_batch_size,
                   global_keys, vet_range, vet_i, gks, loop_counter, submitted>>

\* the loop of line 110 goes to its next batch (lines 111-113), or ends
NextKeyBatch(keys) ==
    /\ vet_i' = vet_i + vet_batch_size
    /\ loop_counter' = 0
    /\ existing_gks' = <<>>
    /\ IF vet_i' >= vet_range
       THEN pc' = "vetted" /\ gks' = <<>>
       ELSE pc' = "check_global_keys" /\ gks' = KeyBatch(keys, vet_i', vet_batch_size)

\* lines 114-134, one turn of the while loop: nothing in use ends it; with
\* skip_duplicates the keys in use are dropped and the loop is left; without, they
\* are renamed, and the batch at the same place of the new key list is vetted
VetKeysInUse ==
    /\ pc = "vet"
    /\ IF existing_gks = <<>>
       THEN /\ NextKeyBatch(global_keys)
            /\ UNCHANGED <<vet_dict, global_keys>>
       ELSE IF vet_skip
       THEN /\ vet_dict' = DropExisting(vet_dict, existing_gks)
            /\ NextKeyBatch(global_keys)
            /\ UNCHANGED global_keys
       ELSE /\ loop_counter' = loop_counter + 1
            /\ vet_dict' = RenameExisting(vet_dict, existing_gks, divider, loop_counter')
            /\ global_keys' = OdKeys(vet_dict')
            /\ gks' = KeyBatch(global_keys', vet_i, vet_batch_size)
            /\ pc' = "check_global_keys"
            /\ UNCHANGED <<vet_i, existing_gks>>
    /\ UNCHANGED <<pureVars, notVettingVars, given_dict, keys_in_use, vet_skip,
                   vet_batch_size, vet_range, reported, submitted>>

\* lines 138-157: every data row of upload_dict goes into a call of create_data_rows
UploadVetted ==
    /\ pc = "vetted"
    /\ submitted' = [k \in 1..Len(vet_dict) |-> vet_dict[k].value.data_row.global_key]
    /\ pc' = "uploaded"
    /\ UNCHANGED <<pureVars, notVettingVars, vet_dict, given_dict, keys_in_use, vet_skip,
                   vet_batch_size, global_keys, vet_range, vet_i, gks, existing_gks,
                   loop_counter, reported>>

VettingNext ==
    \/ CheckKeys
    \/ VetKeysInUse
    \/ UploadVetted

SpecVetting == VetInit /\ [][VettingNext]_vars

\* C21: with skip_duplicates, every global key the platform reported in use is gone
\* from upload_dict before create_data_rows is called, no other entry is gone, and
\* no data row with a key reported in use is submitted.
C21_SkipsKeysInUse ==
    (vet_skip /\ pc \in {"vetted", "uploaded"})
    => /\ vet_dict = SelectSeq(given_dict, LAMBDA e : e.key \notin reported)
       /\ \A k \in 1..Len(submitted) : submitted[k] \notin reported

\* an upload of which one key was in use and the other was submitted
C21_Witness ==
    /\ vet_skip /\ pc = "uploaded"
    /\ reported # {} /\ submitted # <<>>
    /\ Len(submitted) < Len(given_dict)

\* C22: without skip_duplicates, a data row renamed in round n of a batch is stored
\* under its original global key followed by the divider and n, and carries that key
\* as its global_key; a data row never renamed keeps its key.
C22_SuffixOnOriginalKey ==
    (~vet_skip /\ pc \in {"check_global_keys", "vet", "vetted", "uploaded"})
    => \A k \in 1..Len(vet_dict) :
          LET upload == vet_dict[k].value
          IN  /\ vet_dict[k].key = upload.data_row.global_key
              /\ vet_dict[k].key =
                    IF upload.renamed_in = 0 THEN upload.data_row.row_data
                    ELSE upload.data_row.row_data \o divider \o IntStr(upload.renamed_in)


-----------------------------------------------------------------------------
(* models.create_model_run_with_name: the name of the new model run is the *)
(* requested one, with its version raised until no run of the model has   *)
(* the name.                                                               *)

\* most names in a row, from the requested one on, that runs of the model may have
MaxTaken == 3

Dot == <<".">>
\* the value of a digit character
DigitValue(c) == (CHOOSE k \in 1..10 : DigitChars[k] = c) - 1
IsDigits(s) == s # <<>> /\ \A k \in 1..Len(s) : \E d \in 1..10 : DigitChars[d] = s[k]
\* int(s) of a string of digits
RECURSIVE int(_)
int(s) == IF s = <<>> THEN 0 ELSE 10 * int(DropLast(s, 1)) + DigitValue(s[Len(s)])

\* line 20 without the padding
V3Str_Unpadded(v3) == IntStr(v3)

\* line 20: str(v3), with a 0 before a single digit
V3Str(v3) == IF Len(IntStr(v3)) >= 2 THEN IntStr(v3) ELSE <<"0">> \o IntStr(v3)

\* lines 12-26: the next name, or the ValueError of a name that is no version
NextRunName(name) ==
    Only({ IF Len(v) # 3 THEN Raise("ValueError", name)
           ELSE IF ~(IsDigits(v[3]) /\ IsDigits(v[2])) THEN Raise("ValueError", name)
           ELSE Only({ IF v2 > 9
                       THEN IF ~IsDigits(v[1]) THEN Raise("ValueError", name)
                            ELSE Return(IntStr(int(v[1]) + 1) \o Dot \o IntStr(0) \o Dot
                                        \o (IF int(v[3]) = 99 THEN <<"0", "0">> ELSE V3Str(int(v[3]) + 1)))
                       ELSE Return(v[1] \o Dot \o IntStr(v2) \o Dot
                                   \o (IF int(v[3]) = 99 THEN <<"0", "0">> ELSE V3Str(int(v[3]) + 1)))
                     : v2 \in {IF int(v[3]) = 99 THEN int(v[2]) + 1 ELSE int(v[2])} })
         : v \in {Split(name, Dot)} })

\* a version, as the three numbers of its fields
VersionAfter(version) ==
    LET third  == IF version[3] = 99 THEN 0 ELSE version[3] + 1
        second == IF version[3] = 99 THEN version[2] + 1 ELSE version[2]
    IN  IF second > 9 THEN <<version[1] + 1, 0, third>> ELSE <<version[1], second, third>>
RECURSIVE VersionsAfter(_, _)
VersionsAfter(version, n) ==
    IF n = 0 THEN version ELSE VersionsAfter(VersionAfter(version), n - 1)
\* the name #.#.## of a version
VersionName(version) ==
    IntStr(version[1]) \o Dot \o IntStr(version[2]) \o Dot
        \o (IF version[3] < 10 THEN <<"0">> ELSE <<>>) \o IntStr(version[3])

\* the requests: the default name, and names before and at the roll-overs
Requests ==
    << [name |-> <<"0", ".", "0", ".", "1">>, version |-> <<0, 0, 1>>],
       [name |-> <<"0", ".", "0", ".", "0", "8">>, version |-> <<0, 0, 8>>],
       [name |-> <<"0", ".", "0", ".", "9", "8">>, version |-> <<0, 0, 98>>],
       [name |-> <<"0", ".", "9", ".", "9", "8">>, version |-> <<0, 9, 98>>],
       [name |-> <<"9", ".", "9", ".", "9", "9">>, version |-> <<9, 9, 99>>],
       [name |-> <<"3", ".", "4", ".", "5", "6">>, version |-> <<3, 4, 56>>] >>
\* the name a request reaches after n increments
NameReached(request, n) ==
    IF n = 0 THEN request.name ELSE VersionName(VersionsAfter(request.version, n))

\* create_model_run_with_name is called; line 9
ModelsInit ==
    /\ PureIdle
    /\ NotModelsIdle
    /\ \E r \in 1..Len(Requests) : requested = Requests[r]
    /\ model_run_name = requested.name
    /\ \E taken \in SUBSET (0..MaxTaken) :
          current_runs = {NameReached(requested, n) : n \in taken}
    /\ model_run = None
    /\ pc = "model_runs"

\* lines 10-26: one turn of the while loop
RaiseVersion ==
    /\ pc = "model_runs"
    /\ model_run_name \in current_runs
    /\ IF Raised(NextRunName(model_run_name))
       THEN /\ model_run' = NextRunName(model_run_name)
            /\ pc' = "model_run"
            /\ UNCHANGED model_run_name
       ELSE /\ model_run_name' = NextRunName(model_run_name).ret
            /\ UNCHANGED <<model_run, pc>>
    /\ UNCHANGED <<pureVars, notModelsVars, requested, current_runs>>

\* lines 28-29
CreateModelRun ==
    /\ pc = "model_runs"
    /\ model_run_name \notin current_runs
    /\ model_run' = Return([name |-> model_run_name])
    /\ pc' = "model_run"
    /\ UNCHANGED <<pureVars, notModelsVars, requested, model_run_name, current_runs>>

ModelsNext ==
    \/ RaiseVersion
    \/ CreateModelRun

SpecModels == ModelsInit /\ [][ModelsNext]_vars

\* the call goes on as long as it has a step to take
SpecModelsFair == SpecModels /\ WF_vars(ModelsNext)

\* the least number of increments after which the name of the request is free
FirstFree ==
    CHOOSE n \in 0..(MaxTaken + 1) :
        /\ NameReached(requested, n) \notin current_runs
        /\ \A m \in 0..(n - 1) : NameReached(requested, m) \in current_runs

\* C23: create_model_run_with_name ends, and creates the model run under a name no
\* run of the model has: the requested name when it is free, otherwise the first
\* free name reached by raising the version, 99 rolling over to 00 into the second
\* field and the second field rolling over past 9 into the first.
C23_FirstFreeVersion ==
    /\ [](pc = "model_run"
          => /\ Returned(model_run)
             /\ model_run.ret.name \notin current_runs
             /\ model_run.ret.name = NameReached(requested, FirstFree))
    /\ <>(pc = "model_run")

\* the run was created after both roll-overs: 9.9.99 and 10.0.00 were taken
C23_Witness ==
    /\ pc = "model_run" /\ Returned(model_run)
    /\ requested.version = <<9, 9, 99>>
    /\ model_run.ret.name = <<"1", "0", ".", "0", ".", "0", "1">>


-----------------------------------------------------------------------------
(* metadata.process_metadata_value: an inbound value is screened for the   *)
(* type of its metadata field.                                             *)

\* Python values, by type
MdNone == [type |-> "NoneType"]
MdStr(s) == [type |-> "str", chars |-> s]
MdInt(n) == [type |-> "int", n |-> n]
MdBool(b) == [type |-> "bool", n |-> IF b THEN 1 ELSE 0]
\* a float with one decimal, or NaN
MdFloat(whole, tenths) == [type |-> "float", n |-> whole, tenths |-> tenths, nan |-> FALSE]
MdNaN == [type |-> "float", n |-> 0, tenths |-> 0, nan |-> TRUE]
MdList(n) == [type |-> "list", n |-> n]
\* a datetime, as its text
MdDatetime(s) == [type |-> "datetime", chars |-> s]

\* bool(metadata_value)
MdTruthy(v) ==
    CASE v.type = "NoneType" -> FALSE
      [] v.type = "str" -> v.chars # <<>>
      [] v.type = "float" -> v.nan \/ v.n # 0 \/ v.tenths # 0
      [] v.type = "datetime" -> TRUE
      [] OTHER -> v.n # 0

\* str(metadata_value)
MdText(v) ==
    CASE v.type = "NoneType" -> <<"N", "o", "n", "e">>
      [] v.type = "str" -> v.chars
      [] v.type = "int" -> IntStr(v.n)
      [] v.type = "bool" -> IF v.n = 1 THEN <<"T", "r", "u", "e">> ELSE <<"F", "a", "l", "s", "e">>
      [] v.type = "float" -> IF v.nan THEN <<"n", "a", "n">> ELSE IntStr(v.n) \o Dot \o IntStr(v.tenths)
      [] v.type = "list" -> <<"[", "]">>
      [] v.type = "datetime" -> v.chars

\* int(metadata_value): numbers are cut to their whole part, strings of digits are
\* read, everything else is a TypeError or a ValueError
MdWhole(v) ==
    CASE v.type \in {"int", "bool"} -> Return(v.n)
      [] v.type = "float" -> IF v.nan THEN Raise("ValueError", "nan") ELSE Return(v.n)
      [] v.type = "str" -> IF IsDigits(v.chars) THEN Return(int(v.chars))
                           ELSE Raise("ValueError", "literal")
      [] OTHER -> Raise("TypeError", v.type)

\* dateutil's parser.parse: a text of digits is a date, a word or nothing is not
ParseDate(s) ==
    IF IsDigits(s) THEN Return(MdDatetime(s)) ELSE Raise("ParserError", "format")

ParentName == <<"c", "o", "l", "o", "r">>
\* f"{parent_name}{divider}{str(metadata_value)}"
NameKey(v, div) == ParentName \o div \o MdText(v)

\* the body of process_metadata_value with return_value as the first checks left
\* it: lines 123-147
process_metadata_value(v, type, schema, div) ==
    CASE type = "enum" ->
            IF \E k \in 1..Len(schema) : schema[k].key = NameKey(v, div)
            THEN Return(MdStr(OdGet(schema, NameKey(v, div))))
            ELSE Return(MdNone)
      [] type = "number" ->
            IF Raised(MdWhole(v)) THEN Return(MdNone)
            ELSE Return(MdStr(IntStr(MdWhole(v).ret)))
      [] type = "string" -> Return(MdStr(MdText(v)))
      [] OTHER ->
            IF v.type = "str" THEN ParseDate(v.chars)
            ELSE IF v.type = "datetime" THEN Return(v)
            ELSE Return(MdNone)

MetadataTypes == {"enum", "number", "string", "datetime"}
MetadataValues ==
    { MdNone, MdStr(<<>>), MdStr(<<"n", "a", "n">>), MdStr(<<"r", "e", "d">>), MdStr(<<"3">>), MdStr(<<"2", "0", "2", "1">>),
      MdInt(0), MdInt(3), MdFloat(0, 0), MdFloat(3, 0), MdFloat(3, 7), MdNaN,
      MdBool(FALSE), MdBool(TRUE), MdList(0), MdDatetime(<<"2", "0", "2", "1", "-", "0", "1", "-", "0", "1">>) }
\* the name keys of the options of the enum field, with and without options
MetadataSchemas ==
    { <<>>,
      << [key |-> ParentName \o DIV \o <<"r", "e", "d">>, value |-> <<"s", "c", "h", "e", "m", "a", "1">>],
         [key |-> ParentName \o DIV \o <<"3">>, value |-> <<"s", "c", "h", "e", "m", "a", "2">>] >> }

\* process_metadata_value is called
MetadataInit ==
    /\ PureIdle
    /\ NotMetadataIdle
    /\ metadata_value \in MetadataValues
    /\ metadata_type \in MetadataTypes
    /\ name_key_to_schema \in MetadataSchemas
    /\ return_value = None
    /\ pc = "process_metadata_value"

\* lines 111-147
ProcessMetadataValue ==
    /\ pc = "process_metadata_value"
    /\ return_value' =
          process_metadata_value(metadata_value, metadata_type, name_key_to_schema, divider)
    /\ pc' = "processed"
    /\ UNCHANGED <<pureVars, notMetadataVars, metadata_value, metadata_type, name_key_to_schema>>

MetadataNext == ProcessMetadataValue

SpecMetadata == MetadataInit /\ [][MetadataNext]_vars

\* str(metadata_value) == "nan"
IsNaN(v) == MdText(v) = <<"n", "a", "n">>
\* a value that is no value of the type of its field
InvalidForType(v, type, schema, div) ==
    CASE type = "enum" -> \A k \in 1..Len(schema) : schema[k].key # NameKey(v, div)
      [] type = "number" ->
            ~(\/ v.type = "int"
              \/ v.type = "float" /\ ~v.nan /\ v.tenths = 0
              \/ v.type = "str" /\ IsDigits(v.chars))
      [] type = "datetime" -> v.type \notin {"str", "datetime"}
      [] OTHER -> FALSE

\* C24: process_metadata_value returns None for every empty or NaN value, of any
\* type of field, and for every value that is invalid for the type of its field
\* (an enum option without a schema, a number that is no integer, a datetime
\* value that is neither a string nor a datetime); it never raises, and never
\* returns a text such as "None" or "nan".
C24_InvalidValuesGiveNone ==
    pc = "processed"
    => /\ Returned(return_value)
       /\ (\/ ~MdTruthy(metadata_value)
           \/ IsNaN(metadata_value)
           \/ InvalidForType(metadata_value, metadata_type, name_key_to_schema, divider))
          => return_value = Return(MdNone)
       /\ return_value \notin {Return(MdStr(<<"N", "o", "n", "e">>)), Return(MdStr(<<"n", "a", "n">>))}


-----------------------------------------------------------------------------
(* annotate.py: get_leaf_paths and flatten_label on a label of the export. *)

\* most objects, and most top-level classifications, of a label
MaxLabelObjects == 2
MaxLabelClassifications == 2

\* answers and classifications as export_v2 writes them
ExportAnswer(name, classifications) == [name |-> name, classifications |-> classifications]
ExportRadio(name, answer) == [name |-> name, radio_answer |-> answer]
ExportChecklist(name, answers) == [name |-> name, checklist_answers |-> answers]
ExportText(name, content) == [name |-> name, text_answer |-> [content |-> content]]

\* the ontology of the project of the label; with `shared`, a top-level
\* classification has the name of a tool
LabelOntology(shared) ==
    Normalized(
        << Tool("rectangle", Car,
                << Classification("radio", Damaged,
                       << BranchOption(Yes,
                              << Classification("radio", Severity,
                                                <<Option(Low), Option(High)>>) >>),
                          Option(No) >>) >>),
           Tool("point", Spot, <<>>) >>,
        << Classification("radio", Color, <<Option(Red), Option(Blue)>>),
           Classification("checklist", Colors, <<Option(Red), Option(Blue)>>),
           Classification("text", Comment, <<>>),
           Classification("radio", Weather,
               << BranchOption(Sunny,
                      << Classification("checklist", Severity, <<Option(Low), Option(High)>>),
                         Classification("text", Comment, <<>>) >>),
                  Option(Rainy) >>) >>
        \o (IF shared THEN <<Classification("radio", Car, <<Option(Yes), Option(No)>>)>>
            ELSE <<>>))

\* labelbase.ontology.get_ontology_schema_to_name_path(ontology, invert=True, detailed=True)
LabelIndex(shared) ==
    get_ontology_schema_to_name_path(
        [pytype |-> "dict", normalized |-> LabelOntology(shared)], DIV, TRUE, TRUE).ret

\* the objects a label may hold
LabelObjects ==
    << [name |-> Car, bounding_box |-> [top |-> 10, left |-> 20, height |-> 30, width |-> 40],
        classifications |-> <<>>],
       [name |-> Car, bounding_box |-> [top |-> 1, left |-> 2, height |-> 3, width |-> 4],
        classifications |->
            << ExportRadio(Damaged,
                   ExportAnswer(Yes, <<ExportRadio(Severity, ExportAnswer(Low, <<>>))>>)) >>],
       [name |-> Spot, point |-> [x |-> 5, y |-> 6], classifications |-> <<>>] >>

\* the top-level classifications a label may hold; the last one is of the
\* ontology with the shared name
LabelClassifications ==
    << ExportRadio(Color, ExportAnswer(Red, <<>>)),
       ExportChecklist(Colors, <<ExportAnswer(Blue, <<>>), ExportAnswer(Red, <<>>)>>),
       ExportText(Comment, HelloWorld),
       ExportRadio(Weather,
           ExportAnswer(Sunny,
               << ExportChecklist(Severity, <<ExportAnswer(Low, <<>>), ExportAnswer(High, <<>>)>>),
                  ExportText(Comment, HelloWorld) >>)),
       ExportRadio(Car, ExportAnswer(Yes, <<>>)) >>

\* annotation_type as it is written into a column name
TypeChars(type) ==
    CASE type = "bbox" -> <<"b", "b", "o", "x">>
      [] type = "rectangle" -> <<"r", "e", "c", "t", "a", "n", "g", "l", "e">>
      [] type = "point" -> <<"p", "o", "i", "n", "t">>
      [] type = "mask" -> <<"m", "a", "s", "k">>
      [] type = "radio" -> <<"r", "a", "d", "i", "o">>
      [] type = "checklist" -> <<"c", "h", "e", "c", "k", "l", "i", "s", "t">>
      [] type = "text" -> <<"t", "e", "x", "t">>
      [] OTHER -> <<"?">>

\* lines 351-355: the type of an object, as the index and the object give it
ObjectType(obj, idx) ==
    LET entry == IndexLookup(idx, obj.name)
        renamed == IF entry.ret.type = "raster-segmentation" THEN "mask"
                   ELSE IF entry.ret.type = "rectangle" THEN "bbox"
                   ELSE entry.ret.type
    IN  IF Raised(entry) THEN entry
        ELSE Return((IF "geojson" \in DOMAIN obj THEN <<"g", "e", "o", "_">> ELSE <<>>)
                    \o TypeChars(renamed))

\* lines 359-379, for a mask as its URL
AnnotationValue(obj) ==
    IF "bounding_box" \in DOMAIN obj
    THEN <<obj.bounding_box.top, obj.bounding_box.left,
           obj.bounding_box.height, obj.bounding_box.width>>
    ELSE IF "polygon" \in DOMAIN obj
    THEN [k \in 1..Len(obj.polygon) |-> <<obj.polygon[k].x, obj.polygon[k].y>>]
    ELSE IF "line" \in DOMAIN obj
    THEN [k \in 1..Len(obj.line) |-> <<obj.line[k].x, obj.line[k].y>>]
    ELSE IF "point" \in DOMAIN obj THEN <<obj.point.x, obj.point.y>>
    ELSE IF "data" \in DOMAIN obj THEN <<obj.data.location.start, obj.data.location.end>>
    ELSE IF "geojson" \in DOMAIN obj THEN obj.geojson.coordinates
    ELSE <<obj.mask.url, <<255, 255, 255>>>>

\* lines 380-390
ReturnPaths(obj, div) ==
    IF "classifications" \in DOMAIN obj /\ Len(obj.classifications) > 0
    THEN get_leaf_paths(obj.classifications, <<>>, div)
    ELSE <<>>

\* lines 350-391: the loop over the objects, from the k-th on
RECURSIVE FlattenObjects(_, _, _, _, _)
FlattenObjects(objects, k, idx, div, flat) ==
    IF k > Len(objects) THEN Return(flat)
    ELSE LET type == ObjectType(objects[k], idx)
             column_name == type.ret \o div \o objects[k].name
             column == IF OdHas(flat, column_name) THEN OdGet(flat, column_name) ELSE <<>>
         IN  IF Raised(type) THEN type
             ELSE FlattenObjects(objects, k + 1, idx, div,
                      OdSet(flat, column_name,
                            Append(column, <<AnnotationValue(objects[k]),
                                             ReturnPaths(objects[k], div)>>)))

\* lines 402-405: the loop over classification_names, from the k-th on
RECURSIVE FlattenClassifications(_, _, _, _, _, _)
FlattenClassifications(classification_names, k, leaves, idx, div, flat) ==
    IF k > Len(classification_names) THEN Return(flat)
    ELSE LET entry == IndexLookup(idx, classification_names[k])
         IN  IF Raised(entry) THEN entry
             ELSE FlattenClassifications(classification_names, k + 1, leaves, idx, div,
                      OdSet(flat, TypeChars(entry.ret.type) \o div \o classification_names[k],
                            <<get_child_paths(classification_names[k], leaves, div)>>))

\* lines 345-405
flatten_label(label, idx, div, seed) ==
    LET objects == label.annotations.objects
        classifications == label.annotations.classifications
        flat_objects == IF objects # <<>> THEN FlattenObjects(objects, 1, idx, div, <<>>)
                        ELSE Return(<<>>)
        leaves == get_leaf_paths(classifications, <<>>, div)
    IN  IF Raised(flat_objects) \/ classifications = <<>> THEN flat_objects
        ELSE FlattenClassifications(pull_first_name_from_paths(leaves, div, seed), 1,
                                    leaves, idx, div, flat_objects.ret)

\* the lists of n of the objects
ObjectLists(n) == [1..n -> 1..Len(LabelObjects)]
\* the lists of n classifications of different names, among the first `pool`
ClassificationLists(n, pool) ==
    { c \in [1..n -> 1..pool] : \A a, b \in 1..n : a # b => c[a] # c[b] }

\* a label is exported
FlattenInit ==
    /\ PureIdle
    /\ NotFlattenIdle
    /\ \E shared \in BOOLEAN :
          /\ label_index = LabelIndex(shared)
          /\ \E n \in 0..MaxLabelObjects, m \in 0..MaxLabelClassifications :
             \E o \in ObjectLists(n) :
             \E c \in ClassificationLists(m, Len(LabelClassifications) - (IF shared THEN 0 ELSE 1)) :
                label_dict =
                    [annotations |->
                        [objects |-> [k \in 1..n |-> LabelObjects[o[k]]],
                         classifications |-> [k \in 1..m |-> LabelClassifications[c[k]]]]]
    /\ export_leaf_paths = None
    /\ flat_label = None
    /\ pc = "exported"

\* leaf_paths = get_leaf_paths(classifications, divider=divider)
GetLeafPaths ==
    /\ pc = "exported"
    /\ export_leaf_paths' =
          Return(get_leaf_paths(label_dict.annotations.classifications, <<>>, divider))
    /\ pc' = "leaves"
    /\ UNCHANGED <<pureVars, notFlattenVars, label_dict, label_index, flat_label>>

\* flat_label = flatten_label(client, label_dict, ontology_index)
FlattenLabel ==
    /\ pc \in {"exported", "leaves"}
    /\ flat_label' = flatten_label(label_dict, label_index, divider, hashseed)
    /\ pc' = "flattened"
    /\ UNCHANGED <<pureVars, notFlattenVars, label_dict, label_index, export_leaf_paths>>

FlattenNext ==
    \/ GetLeafPaths
    \/ FlattenLabel

SpecFlatten == FlattenInit /\ [][FlattenNext]_vars

\* the names along the chain to each leaf of a list of exported classifications
RECURSIVE Leaves(_)
AnswersOf(classification) ==
    IF "radio_answer" \in DOMAIN classification THEN <<classification.radio_answer>>
    ELSE IF "checklist_answers" \in DOMAIN classification
    THEN classification.checklist_answers
    ELSE <<>>
IsBranch(answer) == "classifications" \in DOMAIN answer /\ answer.classifications # <<>>
LeavesBelow(classification) ==
    LET answers == AnswersOf(classification)
        RECURSIVE Below(_)
        Below(k) ==
            IF k > Len(answers) THEN <<>>
            ELSE (IF IsBranch(answers[k])
                  THEN LET nested == Leaves(answers[k].classifications)
                       IN  [j \in 1..Len(nested) |->
                               <<classification.name, answers[k].name>> \o nested[j]]
                  ELSE << <<classification.name, answers[k].name>> >>)
                 \o Below(k + 1)
    IN  IF "text_answer" \in DOMAIN classification
        THEN << <<classification.name, classification.text_answer.content>> >>
        ELSE Below(1)
Leaves(classifications) ==
    IF classifications = <<>> THEN <<>>
    ELSE LeavesBelow(classifications[1]) \o Leaves(Tail(classifications))

\* the names of a chain, joined by the divider
RECURSIVE JoinNames(_, _)
JoinNames(names, div) ==
    IF Len(names) = 1 THEN names[1] ELSE names[1] \o div \o JoinNames(Tail(names), div)

\* how many times a list holds a value
Count(list, value) == Cardinality({k \in 1..Len(list) : list[k] = value})

\* C25: get_leaf_paths emits exactly one name path for each leaf of the exported
\* classifications (a text answer, or a radio or checklist answer under which no
\* classification is nested) and none for an answer that is a branch; the path
\* is the names along the chain from the top classification to the leaf, joined
\* by the divider, the text itself being the last name of a text answer.
C25_OnePathPerLeaf ==
    pc = "leaves"
    => LET leaves == Leaves(label_dict.annotations.classifications)
           expected == [k \in 1..Len(leaves) |-> JoinNames(leaves[k], divider)]
           emitted == export_leaf_paths.ret
       IN  /\ Len(emitted) = Len(expected)
           /\ \A p \in Range(emitted) \cup Range(expected) :
                 Count(emitted, p) = Count(expected, p)

\* the leaves below a branch answer were emitted, next to those of another
\* top-level classification
C25_Witness ==
    /\ pc = "leaves"
    /\ Len(label_dict.annotations.classifications) = 2
    /\ Path(<<Weather, Sunny, Severity, High>>) \in Range(export_leaf_paths.ret)
    /\ Path(<<Weather, Sunny, Comment, HelloWorld>>) \in Range(export_leaf_paths.ret)
    /\ Path(<<Comment, HelloWorld>>) \in Range(export_leaf_paths.ret)


\* the type of each tool and of each top-level classification of the ontology,
\* as a column name spells it
ToolColumnType(name) == IF name = Car THEN TypeChars("bbox") ELSE TypeChars("point")
ClassificationColumnType(name) ==
    IF name \in {Color, Weather, Car} THEN TypeChars("radio")
    ELSE IF name = Colors THEN TypeChars("checklist")
    ELSE TypeChars("text")

\* C26: flatten_label files all objects of one tool under one column: when k
\* objects of the label have the name of the tool, the column <type><divider><tool
\* name> holds exactly k entries, in the order of the export, each the list of the
\* geometry value and the nested name paths of its object; objects of other
\* tools are not in the column.
C26_OneColumnPerTool ==
    pc = "flattened"
    => /\ Returned(flat_label)
       /\ \A o \in 1..Len(label_dict.annotations.objects) :
             LET tool == label_dict.annotations.objects[o].name
                 instances == SelectSeq(label_dict.annotations.objects,
                                        LAMBDA obj : obj.name = tool)
                 column_name == ToolColumnType(tool) \o divider \o tool
             IN  /\ OdHas(flat_label.ret, column_name)
                 /\ Len(OdGet(flat_label.ret, column_name)) = Len(instances)
                 /\ \A k \in 1..Len(instances) :
                       LET entry == OdGet(flat_label.ret, column_name)[k]
                       IN  /\ Len(entry) = 2
                           /\ entry[2] = ReturnPaths(instances[k], divider)
                           /\ entry[1] = AnnotationValue(instances[k])

\* C27: for each top-level classification of the label, flatten_label stores
\* under <type><divider><classification name> a list of one element, the list of
\* exactly the leaf paths whose first segment is the name of the classification,
\* without that name; the leaf paths of one top-level classification are never in
\* the column of another.
C27_OneColumnPerClassification ==
    pc = "flattened"
    => /\ Returned(flat_label)
       /\ \A c \in 1..Len(label_dict.annotations.classifications) :
             LET name == label_dict.annotations.classifications[c].name
                 leaves == get_leaf_paths(label_dict.annotations.classifications, <<>>, divider)
                 column_name == ClassificationColumnType(name) \o divider \o name
             IN  /\ OdHas(flat_label.ret, column_name)
                 /\ OdGet(flat_label.ret, column_name)
                       = << ChildrenOf(name, leaves, divider) >>


-----------------------------------------------------------------------------
(* What the encoder returns: the key `classifications`.                    *)

\* no answer of the classifications built under `parent` has a key
\* `classifications` with an empty list, at any depth
RECURSIVE NoEmptyClassifications(_, _, _, _)
NoEmptyClassifications(built, parent, idx, div) ==
    \A i \in 1..Len(built) :
        LET key == IF parent = <<>> THEN built[i].name
                   ELSE parent \o div \o built[i].name
            answers == IF "answers" \in DOMAIN built[i] THEN built[i].answers
                       ELSE IF key \in DOMAIN idx /\ idx[key].type = "radio"
                       THEN <<built[i].answer>>
                       ELSE <<>>
        IN  \A j \in 1..Len(answers) :
               "classifications" \in DOMAIN answers[j]
               => /\ answers[j].classifications # <<>>
                  /\ NoEmptyClassifications(answers[j].classifications,
                                            key \o div \o answers[j].name, idx, div)

\* C28: no object the encoder returns (the object of a tool, the answer of a
\* radio, an entry of the answers of a checklist) has a key `classifications`
\* with an empty list: the key is there only when a nested classification was
\* built, and is left out otherwise.
C28_NoEmptyClassifications ==
    /\ (EncodedTool /\ Returned(ndjson) /\ "classifications" \in DOMAIN ndjson.ret)
       => /\ ndjson.ret.classifications # <<>>
          /\ NoEmptyClassifications(ndjson.ret.classifications, top_level_name,
                                    ontology_index, divider)
    /\ (EncodedTool /\ Returned(ndjson))
       => ("classifications" \in DOMAIN ndjson.ret <=> annotation_input[2] # <<>>)
    /\ (pc = "classified" /\ Returned(classification_ndjson))
       => NoEmptyClassifications(<<classification_ndjson.ret>>, tool_name,
                                 ontology_index, divider)

\* a radio was built whose answer has a nested classification, the answer of
\* which has none
C28_Witness ==
    /\ pc = "classified" /\ Returned(classification_ndjson)
    /\ classification_path = Damaged
    /\ "classifications" \in DOMAIN classification_ndjson.ret.answer
    /\ "classifications" \notin DOMAIN classification_ndjson.ret.answer.classifications[1].answer


-----------------------------------------------------------------------------
(* connector.determine_actions: what an upload does, from the ids, the     *)
(* columns and the indexes it was given.                                   *)

\* Python's False, and a dictionary of one key
PyFalse == [bool |-> FALSE]
PyDict(key, value) == [dict |-> <<[key |-> key, value |-> value]>>]

\* lines 155-166 with the model before the model run
PredictionsAction_ModelFirst(a) ==
    IF a.prediction_index = <<>> THEN PyFalse
    ELSE IF a.model_id # "" THEN PyDict("model_id", a.model_id)
    ELSE IF a.model_id_col # "" THEN PyDict("model_id_col", a.model_id_col)
    ELSE IF a.model_run_id # "" THEN PyDict("model_run_id", a.model_run_id)
    ELSE IF a.model_run_id_col # "" THEN PyDict("model_run_id_col", a.model_run_id_col)
    ELSE PyFalse

\* lines 155-166
PredictionsAction(a) ==
    IF a.prediction_index = <<>> THEN PyFalse
    ELSE IF a.model_run_id # "" THEN PyDict("model_run_id", a.model_run_id)
    ELSE IF a.model_run_id_col # "" THEN PyDict("model_run_id_col", a.model_run_id_col)
    ELSE IF a.model_id # "" THEN PyDict("model_id", a.model_id)
    ELSE IF a.model_id_col # "" THEN PyDict("model_id_col", a.model_id_col)
    ELSE PyFalse

\* lines 148-168
determine_actions(a) ==
    LET create_action == ~(a.dataset_id = "" /\ a.dataset_id_col = "")
        batch_action == ~(a.project_id = "" /\ a.project_id_col = "")
    IN  [create_action |-> create_action,
         batch_action |-> batch_action,
         annotate_action |->
            IF a.upload_method \in {"mal", "import"} /\ a.annotation_index # <<>> /\ batch_action
            THEN a.upload_method ELSE "",
         predictions_action |-> PredictionsAction(a)]

\* the indexes: none, or one column of the table
ActionIndexes == { <<>>, <<[key |-> "annotation///bbox///car", value |-> "car"]>> }

\* determine_actions is called
ActionsInit ==
    /\ PureIdle
    /\ NotActionsIdle
    /\ action_args \in
          [dataset_id : {"", "ds1"}, dataset_id_col : {"", "dataset_id"},
           project_id : {"", "pr1"}, project_id_col : {"", "project_id"},
           model_id : {"", "md1"}, model_id_col : {"", "model_id"},
           model_run_id : {"", "mr1"}, model_run_id_col : {"", "model_run_id"},
           upload_method : {"", "mal", "import", "ground-truth"},
           annotation_index : ActionIndexes, prediction_index : ActionIndexes]
    /\ actions = None
    /\ pc = "determine_actions"

\* lines 125-168
DetermineActions ==
    /\ pc = "determine_actions"
    /\ actions' = determine_actions(action_args)
    /\ pc' = "determined"
    /\ UNCHANGED <<pureVars, notActionsVars, action_args>>

ActionsNext == DetermineActions

SpecActions == ActionsInit /\ [][ActionsNext]_vars

-----------------------------------------------------------------------------
(* uploader.batch_create_data_rows: the batches of an upload.              *)

\* the batches submitted for the k-th upload list, one after the other
RECURSIVE Submitted(_, _)
Submitted(calls, dataset_id) ==
    IF calls = <<>> THEN <<>>
    ELSE (IF calls[1].dataset_id = dataset_id THEN <<calls[1].batch>> ELSE <<>>)
         \o Submitted(Tail(calls), dataset_id)
\* the rows of a list of batches
RECURSIVE Rows(_)
Rows(batches) == IF batches = <<>> THEN <<>> ELSE batches[1] \o Rows(Tail(batches))

\* C30: when no batch reports errors, the batches batch_create_data_rows submits
\* are consecutive slices that partition the upload list: every data row is in
\* exactly one call of create_data_rows, in the original order, no batch has more
\* than batch_size rows and only the last batch of a list may have fewer, and a
\* batch is submitted only after the batch before it completed without errors.
C30_BatchesPartition ==
    (pc \in {"return", "done"} /\ FailedCalls = {})
    => /\ \A d \in 1..Len(dataset_id_to_upload_list) :
             LET batches == Submitted(create_calls, dataset_id_to_upload_list[d].dataset_id)
             IN  /\ Rows(batches) = dataset_id_to_upload_list[d].upload_list
                 /\ \A k \in 1..Len(batches) :
                       /\ Len(batches[k]) <= batch_size
                       /\ k < Len(batches) => Len(batches[k]) = batch_size
       /\ \A k \in 1..(Len(create_calls) - 1) :
             create_calls[k].completed /\ create_calls[k].errors = <<>>

=============================================================================
